---- MODULE Spec2Model ----
(***************************************************************************)
(* Roz: motion heatmaps.  A model of the heatmap_minutes store, of the     *)
(* pipeline that writes it, of the intensity codec and of the render path  *)
(* (HeatmapDao, heatmapImageGenerator, the image route).                   *)
(*                                                                         *)
(* Numbers.  A float32 is modelled by the integer it holds: every matrix   *)
(* of the model is integer valued and non-negative, the values for which   *)
(* F32Bits/F32FromBits below are the IEEE-754 binary32 encoding.  A sum    *)
(* stored into a Float32Array is rounded to 24 significant bits            *)
(* (F32Round).  Times are milliseconds since the epoch; the process time   *)
(* zone is taken to be UTC.                                                *)
(***************************************************************************)
EXTENDS Integers, Sequences, FiniteSets, TLC

VARIABLES
    heatmap_minutes,  \* the rows of table heatmap_minutes
    id_seq,           \* the BIGSERIAL sequence behind heatmap_minutes.id
    driver,           \* per pipeline driver: its position and the segment in hand
    request,          \* per render request: its position, data and response
    call,             \* a single call of a pure function: inputs, position, result
    handler,          \* per concurrent GET /api/heatmap/image: its position and locals
    tmp,              \* the files under /tmp: records of path and content
    now,              \* Date.now()
    input,            \* the AggregatedHeatmapData object concurrent renders share
    render,           \* per concurrent render: its position and locals
    cookie,           \* the browser's cookie jar for the site
    browser,          \* the browser tab: its navigation and the mounted page's state
    state_dir,        \* the files of $STATE_DIR: capture.pgid and cleanup.pgid
    pgroup,           \* the process groups of the camera host
    shell             \* per invocation of pi-cam-on or pi-cam-off: its position and locals

vars == <<heatmap_minutes, id_seq, driver, request, call, handler, tmp, now,
          input, render, cookie, browser, state_dir, pgroup, shell>>

(***************************************************************************)
(* Bounds of the model.                                                    *)
(***************************************************************************)
\* matrix elements produced by the detector range over 0..MaxVal
MaxVal == 1
\* INSERT statements issued in one behaviour
MaxInserts == 3
\* bytes appended to a serialized matrix by a writer that is not the codec
MaxTail == 3

Vals == 0..MaxVal
\* (height, width) pairs of the working resolution
Shapes == {<<1, 1>>, <<1, 2>>, <<2, 1>>}

\* a matrix: its shape and its elements in row-major order
MatricesOver(V) ==
    UNION {{[height |-> sh[1], width |-> sh[2], elems |-> e] :
                e \in [1..(sh[1] * sh[2]) -> V]} : sh \in Shapes}

Matrices == MatricesOver(Vals)

RECURSIVE SumSeq(_)
SumSeq(s) == IF s = <<>> THEN 0 ELSE s[1] + SumSeq(Tail(s))

RECURSIVE MaxSeq(_)
MaxSeq(s) ==
    IF s = <<>> THEN 0
    ELSE LET m == MaxSeq(Tail(s)) IN IF s[1] > m THEN s[1] ELSE m

RECURSIVE Concat(_)
Concat(ss) == IF ss = <<>> THEN <<>> ELSE ss[1] \o Concat(Tail(ss))

(***************************************************************************)
(* float32                                                                 *)
(***************************************************************************)
RECURSIVE Log2(_)
Log2(n) == IF n < 2 THEN 0 ELSE 1 + Log2(n \div 2)

\* the binary32 bit pattern of the non-negative integer n (n representable)
F32Bits(n) ==
    IF n = 0 THEN 0
    ELSE LET e == Log2(n)
             frac == IF e <= 23 THEN (n - 2^e) * 2^(23 - e)
                     ELSE (n - 2^e) \div 2^(e - 23)
         IN  (127 + e) * 2^23 + frac

\* the value read with an exponent bias of 126
F32FromBitsBias126(bits) ==
    LET E == bits \div 2^23
        frac == bits % 2^23
    IN  IF E = 0 THEN 0
        ELSE IF E >= 149 THEN (2^23 + frac) * 2^(E - 149)
        ELSE (2^23 + frac) \div 2^(149 - E)

\* the value of a binary32 bit pattern with sign 0 (integer valued patterns)
F32FromBits(bits) ==
    LET E == bits \div 2^23
        frac == bits % 2^23
    IN  IF E = 0 THEN 0
        ELSE IF E >= 150 THEN (2^23 + frac) * 2^(E - 150)
        ELSE (2^23 + frac) \div 2^(150 - E)

\* little-endian: the layout of a Float32Array over a Buffer, and of tobytes()
F32Bytes(n) ==
    LET b == F32Bits(n)
    IN  <<b % 256, (b \div 256) % 256, (b \div 65536) % 256, b \div 2^24>>

F32FromBytes(b) == F32FromBits(b[1] + 256 * b[2] + 65536 * b[3] + 2^24 * b[4])

\* round to nearest, ties to even, of a non-negative integer to 24 significant bits
F32Round(x) ==
    IF x < 2^24 THEN x
    ELSE LET ulp == 2^(Log2(x) - 23)
             q == x \div ulp
             r == x % ulp
         IN  IF 2 * r < ulp THEN q * ulp
             ELSE IF 2 * r > ulp THEN (q + 1) * ulp
             ELSE IF q % 2 = 0 THEN q * ulp
             ELSE (q + 1) * ulp

(***************************************************************************)
(* zlib.  A zlib stream holding one stored (uncompressed) DEFLATE block:   *)
(* CMF FLG | BFINAL/BTYPE | LEN NLEN | data | ADLER32.  inflate accepts    *)
(* it as it accepts any zlib stream, and rejects anything else.            *)
(***************************************************************************)
\* Adler-32: a is 1 plus the sum of the bytes, b the sum of the values a takes
AdlerA(bytes) == (1 + SumSeq(bytes)) % 65521

AdlerB(bytes) ==
    LET n == Len(bytes)
    IN  (n + SumSeq([i \in 1..n |-> (n - i + 1) * bytes[i]])) % 65521

Adler32(bytes) ==
    LET a == AdlerA(bytes)
        b == AdlerB(bytes)
    IN  <<b \div 256, b % 256, a \div 256, a % 256>>

deflate(bytes) ==
    LET n == Len(bytes)
    IN  <<120, 1, 1, n % 256, n \div 256, 255 - (n % 256), 255 - (n \div 256)>>
            \o bytes \o Adler32(bytes)

\* inflate: the decompressed bytes, or the error zlib raises
inflate(blob) ==
    LET n == Len(blob) - 11
        data == SubSeq(blob, 8, 7 + n)
    IN  IF /\ n >= 0
           /\ (blob[1] * 256 + blob[2]) % 31 = 0
           /\ blob[1] % 16 = 8
           /\ blob[3] = 1
           /\ blob[4] + 256 * blob[5] = n
           /\ blob[6] = 255 - blob[4]
           /\ blob[7] = 255 - blob[5]
           /\ SubSeq(blob, 8 + n, 11 + n) = Adler32(data)
        THEN [ok |-> TRUE, data |-> data, error |-> ""]
        ELSE [ok |-> FALSE, data |-> <<>>, error |-> "incorrect header check"]

(***************************************************************************)
(* IntensityCodec                                                          *)
(***************************************************************************)
\* heatmap.tobytes() / Buffer.from(heatmapArray.buffer): row-major float32
tobytes(elems) == Concat([i \in 1..Len(elems) |-> F32Bytes(elems[i])])

\* zlib.compress(heatmap.tobytes())
compress(elems) == deflate(tobytes(elems))

BYTES_PER_ELEMENT == 4

\* ToIndex of the quotient num/den: ToIntegerOrInfinity drops the fraction
ToIndex(num, den) == num \div den

\* a view that reads each element most significant byte first
Float32ArrayBigEndian(bytes, byteLength) ==
    [i \in 1..ToIndex(byteLength, BYTES_PER_ELEMENT) |->
        F32FromBytes(<<bytes[4 * i], bytes[4 * i - 1], bytes[4 * i - 2], bytes[4 * i - 3]>>)]

\* new Float32Array(buffer, byteOffset, byteLength / BYTES_PER_ELEMENT): the
\* view covers the first ToIndex(length) elements of the buffer
Float32Array(bytes, byteLength) ==
    [i \in 1..ToIndex(byteLength, BYTES_PER_ELEMENT) |->
        F32FromBytes(SubSeq(bytes, 4 * i - 3, 4 * i))]

Ok(v) == [ok |-> TRUE, value |-> v, error |-> ""]
Err(msg) == [ok |-> FALSE, value |-> <<>>, error |-> msg]

decompressHeatmap(compressedData, height, width) ==
    LET decompressed == inflate(compressedData)
    IN  IF ~decompressed.ok THEN Err(decompressed.error)
        ELSE LET float32Array ==
                     Float32Array(decompressed.data, Len(decompressed.data))
             IN  IF Len(float32Array) # height * width
                 THEN Err("Invalid heatmap dimensions")
                 ELSE Ok(float32Array)

(***************************************************************************)
(* IntensityRecord: what MinuteAggregator and the encoder make of one      *)
(* segment's summed matrix.  Columns no modelled code reads (video_path,   *)
(* downscale_factor, frame_count, processed_at) are left out.              *)
(***************************************************************************)
CountPositive(elems) == Cardinality({i \in 1..Len(elems) : elems[i] > 0})

\* the columns derived from the summed matrix m
MatrixColumns(m) ==
    [height |-> m.height,
     width |-> m.width,
     intensity_array |-> compress(m.elems),
     total_intensity |-> F32Round(SumSeq(m.elems)),     \* a REAL column
     max_intensity |-> MaxSeq(m.elems),
     nonzero_pixels |-> CountPositive(m.elems)]

\* MatrixColumns of every matrix the detector can produce, computed once
ColumnsOf == [m \in Matrices |-> MatrixColumns(m)]

IntensityRecord(camera_id, timestamp, m) ==
    [camera_id |-> camera_id, timestamp |-> timestamp]
        @@ (IF m \in Matrices THEN ColumnsOf[m] ELSE MatrixColumns(m))

(***************************************************************************)
(* heatmapImageGenerator                                                   *)
(***************************************************************************)
\* a record whose blob its decoder has drained
afterDecodeDrained(record) == [record EXCEPT !.intensity_array = <<>>]

\* the record as decompressHeatmap leaves it: inflate reads compressedData and
\* the Float32Array is a view of the inflated buffer, so nothing of it is written
afterDecode(record) == record

\* the loop body with = in place of +=
accumulateOverwrite(aggregated, heatmap) ==
    [i \in 1..Len(aggregated) |-> heatmap[i]]

\* for (i < size) aggregated[i] += heatmap[i], aggregated a Float32Array
accumulate(aggregated, heatmap) ==
    [i \in 1..Len(aggregated) |-> F32Round(aggregated[i] + heatmap[i])]

RECURSIVE sumAllHeatmaps(_, _, _, _)
sumAllHeatmaps(records, height, width, aggregated) ==
    IF records = <<>> THEN Ok(aggregated)
    ELSE LET heatmap == decompressHeatmap(records[1].intensity_array, height, width)
         IN  IF ~heatmap.ok THEN heatmap
             ELSE sumAllHeatmaps(Tail(records), height, width,
                                 accumulate(aggregated, heatmap.value))

aggregateHeatmaps(data) ==
    LET size == data.height * data.width
    IN  sumAllHeatmaps(data.records, data.height, data.width, [i \in 1..size |-> 0])

\* Math.round(p / q), q > 0: halves round up
MathRound(p, q) == (2 * p + q) \div (2 * q)

\* round(255 * p / (2 * d)): a channel of weight p / (2 * d) as a byte
channelByte(p, d) == MathRound(255 * p, 2 * d)

\* the branches with the first one rising at slope 2
jetSegmentSlope2(k, n, d) ==
    IF k = 1 THEN <<0, 0, channelByte(d + 4 * n, d)>>
    ELSE IF k = 2 THEN <<0, channelByte(8 * n - d, d), 255>>
    ELSE IF k = 3 THEN <<channelByte(8 * n - 3 * d, d), 255, channelByte(5 * d - 8 * n, d)>>
    ELSE IF k = 4 THEN <<255, channelByte(7 * d - 8 * n, d), 0>>
    ELSE <<channelByte(9 * d - 8 * n, d), 0, 0>>

\* r, g, b of branch k of applyJetColormap at value n / d, in exact arithmetic
jetSegment(k, n, d) ==
    IF k = 1 THEN <<0, 0, channelByte(d + 8 * n, d)>>          \* b = 0.5 + value * 4
    ELSE IF k = 2 THEN <<0, channelByte(8 * n - d, d), 255>>   \* g = (value - 0.125) * 4
    ELSE IF k = 3 THEN <<channelByte(8 * n - 3 * d, d), 255, channelByte(5 * d - 8 * n, d)>>
    ELSE IF k = 4 THEN <<255, channelByte(7 * d - 8 * n, d), 0>>
    ELSE <<channelByte(9 * d - 8 * n, d), 0, 0>>

\* the branch taken for value n / d
jetBranch(n, d) ==
    IF 8 * n < d THEN 1                 \* value < 0.125
    ELSE IF 8 * n < 3 * d THEN 2        \* value < 0.375
    ELSE IF 8 * n < 5 * d THEN 3        \* value < 0.625
    ELSE IF 8 * n < 7 * d THEN 4        \* value < 0.875
    ELSE 5

\* applyJetColormap(num / den), den > 0, in exact arithmetic
applyJetColormap(num, den) ==
    LET n == IF num < 0 THEN 0 ELSE IF num > den THEN den ELSE num
    IN  IF den = 0 /\ num = 0 THEN <<0, 0, 0>>             \* NaN: every byte 0
        ELSE IF den = 0 THEN <<128, 0, 0>>                 \* Infinity clamps to 1
        ELSE jetSegment(jetBranch(n, den), n, den)

DefaultQuality == 90

\* the first element in place of the largest, 1 if that is 0
normalisationMaxFirst(aggregated) ==
    IF aggregated[1] = 0 THEN 1 ELSE aggregated[1]

\* the largest element, left at 0 for an all-zero aggregate
normalisationMaxUnclamped(aggregated) == MaxSeq(aggregated)

\* the denominator of the normalisation: the largest element, 1 if that is 0
normalisationMax(aggregated) ==
    LET maxValue == MaxSeq(aggregated)
    IN  IF maxValue = 0 THEN 1 ELSE maxValue

\* the buffer with each pixel written blue first
rgbBufferBlueFirst(aggregated, maxValue) ==
    Concat([i \in 1..Len(aggregated) |->
               LET rgb == applyJetColormap(aggregated[i], maxValue)
               IN  <<rgb[3], rgb[2], rgb[1]>>])

\* the raw RGB buffer handed to sharp, three bytes a pixel
rgbBuffer(aggregated, maxValue) ==
    Concat([i \in 1..Len(aggregated) |-> applyJetColormap(aggregated[i], maxValue)])

\* the image: sharp(imageBuffer, {raw: {width, height, channels: 3}}).jpeg({quality})
generateHeatmapImage(data, options) ==
    LET quality == IF "quality" \in DOMAIN options THEN options.quality
                   ELSE DefaultQuality
        aggregated == aggregateHeatmaps(data)
    IN  IF ~aggregated.ok THEN aggregated
        ELSE Ok([width |-> data.width,
                 height |-> data.height,
                 channels |-> 3,
                 quality |-> quality,
                 raw |-> rgbBuffer(aggregated.value, normalisationMax(aggregated.value))])

\* total / minutes as a fraction; minutes = 0 gives NaN
Quotient(total, minutes) == [num |-> total, den |-> minutes]

\* the statistics with the average taken over one minute
calculateHeatmapStatsUndivided(data) ==
    LET totalIntensity == SumSeq([k \in 1..Len(data.records) |->
                                     data.records[k].total_intensity])
    IN  [totalMinutes |-> data.totalMinutes,
         totalIntensity |-> totalIntensity,
         maxIntensity |-> MaxSeq([k \in 1..Len(data.records) |->
                                     data.records[k].max_intensity]),
         avgIntensity |-> Quotient(totalIntensity, 1)]

\* calculateHeatmapStats over a non-empty record set of non-negative statistics
calculateHeatmapStats(data) ==
    LET totalIntensity == SumSeq([k \in 1..Len(data.records) |->
                                     data.records[k].total_intensity])
        maxIntensity == MaxSeq([k \in 1..Len(data.records) |->
                                   data.records[k].max_intensity])
    IN  [totalMinutes |-> data.totalMinutes,
         totalIntensity |-> totalIntensity,
         maxIntensity |-> maxIntensity,
         avgIntensity |-> Quotient(totalIntensity, data.totalMinutes)]

(***************************************************************************)
(* HeatmapDao                                                              *)
(***************************************************************************)
DayMs == 24 * 60 * 60 * 1000

Dates == {"1970-01-01", "1970-01-02"}

\* new Date(date).getTime() for a YYYY-MM-DD string
DateParse(date) == IF date = "1970-01-01" THEN 0 ELSE DayMs

RECURSIVE orderByTimestamp(_)
orderByTimestamp(rows) ==
    IF rows = {} THEN <<>>
    ELSE LET first == CHOOSE x \in rows : \A y \in rows :
                          \/ x.timestamp < y.timestamp
                          \/ x.timestamp = y.timestamp /\ x.id <= y.id
         IN  <<first>> \o orderByTimestamp(rows \ {first})

\* the query with the end of the range included
getHeatmapMinutesClosed(rows, cameraId, startDate, endDate) ==
    orderByTimestamp({row \in rows :
                         /\ row.camera_id = cameraId
                         /\ row.timestamp >= startDate
                         /\ row.timestamp <= endDate})

getHeatmapMinutes(rows, cameraId, startDate, endDate) ==
    orderByTimestamp({row \in rows :
                         /\ row.camera_id = cameraId
                         /\ row.timestamp >= startDate
                         /\ row.timestamp < endDate})

\* the records of the day handed on without the check for an empty day
getAggregatedHeatmapDataNoNull(rows, cameraId, date) ==
    LET startDate == DateParse(date)
        records == getHeatmapMinutes(rows, cameraId, startDate, startDate + DayMs - 1)
    IN  <<[height |-> IF records = <<>> THEN 1 ELSE records[1].height,
           width |-> IF records = <<>> THEN 1 ELSE records[1].width,
           records |-> records,
           totalMinutes |-> Len(records)]>>

\* null is <<>>, an AggregatedHeatmapData d is <<d>>
getAggregatedHeatmapData(rows, cameraId, date) ==
    LET startDate == DateParse(date)                 \* setHours(0, 0, 0, 0)
        endDate == DateParse(date) + DayMs - 1       \* setHours(23, 59, 59, 999)
        records == getHeatmapMinutes(rows, cameraId, startDate, endDate)
    IN  IF Len(records) = 0 THEN <<>>
        ELSE <<[height |-> records[1].height,
                width |-> records[1].width,
                records |-> records,
                totalMinutes |-> Len(records)]>>

(***************************************************************************)
(* GET /api/heatmap/image                                                  *)
(***************************************************************************)
Response(status, error, details, body) ==
    [status |-> status,
     error |-> error,
     details |-> details,
     contentType |-> IF status = 200 THEN "image/jpeg" ELSE "application/json",
     cacheControl |-> IF status = 200 THEN "public, max-age=3600" ELSE "",
     body |-> body]

NoResponse == Response(0, "", "", <<>>)

\* analytics/generate_heatmap_image.py --date --camera-id --output: the
\* renderer of the record set of the day
generate_heatmap_image(rows, cameraId, date) ==
    LET data == getAggregatedHeatmapData(rows, cameraId, date)
    IN  IF data = <<>> THEN Err("Command failed")
        ELSE generateHeatmapImage(data[1], [colormap |-> "jet"])

\* the check passing unless both parameters are missing
missingParamsBoth(cameraId, date) == cameraId = "" /\ date = ""

\* !cameraId || !date; a missing query parameter is ""
missingParams(cameraId, date) == cameraId = "" \/ date = ""

\* the count query: the rows of the camera from new Date(date) to a day later
countMinutes(rows, cameraId, date) ==
    LET startDate == DateParse(date)
        endDate == startDate + DayMs                 \* setDate(getDate() + 1)
    IN  Cardinality({row \in rows :
                        /\ row.camera_id = cameraId
                        /\ row.timestamp >= startDate
                        /\ row.timestamp < endDate})

BadRequest == Response(400, "camera_id and date required", "", <<>>)
NotFound == Response(404, "No data found", "", <<>>)
ImageResponse(imageBuffer) == Response(200, "", "", imageBuffer)
\* the catch block with the details left out
ServerErrorNoDetails(message) == Response(500, "Failed to generate image", "", <<>>)
\* the catch block
ServerError(message) == Response(500, "Failed to generate image", message, <<>>)

\* the handler run alone, start to end
GET(rows, cameraId, date) ==
    IF missingParams(cameraId, date) THEN BadRequest
    ELSE IF countMinutes(rows, cameraId, date) = 0 THEN NotFound
    ELSE LET image == generate_heatmap_image(rows, cameraId, date)
         IN  IF image.ok THEN ImageResponse(image.value)
             ELSE ServerError(image.error)

(***************************************************************************)
(* Processes                                                               *)
(***************************************************************************)
Drivers == {"d1", "d2"}

Cameras == {"cam1", "cam2"}

\* the video segments the pipeline finds: camera and start of the minute
Segments == {[camera_id |-> "cam1", timestamp |-> 0],
             [camera_id |-> "cam1", timestamp |-> 60000]}

NoSegment == [camera_id |-> "", timestamp |-> 0]

IdleDriver ==
    [pc |-> "idle", segment |-> NoSegment, attempted |-> FALSE]
IdleRequest ==
    [pc |-> "idle", kind |-> "", camera_id |-> "", date |-> "", data |-> <<>>,
     aggregated |-> Err(""), maxValue |-> 0, result |-> Err(""),
     response |-> NoResponse]
NoCall == [pc |-> "none"]

\* the handlers of concurrent requests to the image endpoint
Handlers == {"h1", "h2"}
IdleHandler ==
    [pc |-> "idle", camera_id |-> "", date |-> "", tempFile |-> <<>>,
     effects |-> <<>>, generated |-> Err(""), response |-> NoResponse]
NoHandlers == [h \in Handlers |-> IdleHandler]
\* an empty /tmp
NoFiles == {}

\* concurrent calls of generateHeatmapImage and calculateHeatmapStats on one input
Renders == {"r1", "r2"}
IdleRender ==
    [pc |-> "idle", options |-> <<>>, k |-> 0, aggregated |-> <<>>,
     result |-> Err(""), stats |-> <<>>]
NoRenders == [r \in Renders |-> IdleRender]
NoInput == <<>>

\* a browser with no cookie of the site and no tab open
NoCookies == <<>>
NoBrowser ==
    [pc |-> "closed", url |-> "", requests |-> <<>>, pathname |-> "",
     authenticated |-> FALSE, loading |-> TRUE, password |-> "", error |-> "",
     lastOp |-> "none", lastAt |-> 0, returned |-> <<>>]

\* the camera host: the PGID files, the process groups, the script invocations
PgidFiles == {"capture.pgid", "cleanup.pgid"}
NoStateDir == [f \in PgidFiles |-> <<>>]
MaxPgid == 4
NoGroup == [state |-> "free", runs |-> "", signal |-> ""]
NoGroups == [g \in 1..MaxPgid |-> NoGroup]
Invocations == {"s1", "s2"}
IdleShell ==
    [script |-> "", pc |-> "idle", CAP_LEADER |-> 0, CLN_LEADER |-> 0,
     file |-> "", pgid |-> 0, tries |-> 0, read |-> {}, overlapped |-> FALSE,
     status |-> <<>>]
NoShells == [s \in Invocations |-> IdleShell]

(***************************************************************************)
(* The store and the pipeline that fills it.  Each driver takes a segment  *)
(* through Discovered -> Detecting -> Persisted, Skipped or Failed, and    *)
(* then reports and takes another.                                         *)
(***************************************************************************)
\* the summed matrices a segment can come to: the small ones, and one whose
\* element sum 2^24 + 1 is no float32
Detected == Matrices \cup {[height |-> 1, width |-> 2, elems |-> <<2^24, 1>>]}

\* a table without the constraint
no_constraint(rows, camera_id, timestamp) == TRUE

\* CONSTRAINT unique_camera_minute UNIQUE(camera_id, timestamp): may a row
\* with this key be added to rows
unique_camera_minute(rows, camera_id, timestamp) ==
    ~\E row \in rows : row.camera_id = camera_id /\ row.timestamp = timestamp

Init ==
    /\ heatmap_minutes = {}
    /\ id_seq = 1
    /\ driver = [d \in Drivers |-> IdleDriver]
    /\ handler = NoHandlers
    /\ tmp = NoFiles
    /\ now = 0
    /\ input = NoInput
    /\ cookie = NoCookies
    /\ browser = NoBrowser
    /\ state_dir = NoStateDir
    /\ pgroup = NoGroups
    /\ shell = NoShells
    /\ render = NoRenders
    /\ request = IdleRequest
    /\ call = NoCall

\* the idempotency check: skip a segment whose minute has a record
Discover(d, s) ==
    /\ driver[d].pc = "idle"
    /\ LET exists == \E row \in heatmap_minutes :
                         row.camera_id = s.camera_id /\ row.timestamp = s.timestamp
       IN  driver' = [driver EXCEPT ![d] =
                         [pc |-> IF exists THEN "Skipped" ELSE "Detecting",
                          segment |-> s, attempted |-> FALSE]]
    /\ UNCHANGED <<heatmap_minutes, id_seq, request, call, handler, tmp, now, input, render, cookie, browser, state_dir, pgroup, shell>>

\* an undecodable frame: the segment fails and nothing of it is kept
DetectFail(d) ==
    /\ driver[d].pc = "Detecting"
    /\ driver' = [driver EXCEPT ![d].pc = "Failed"]
    /\ UNCHANGED <<heatmap_minutes, id_seq, request, call, handler, tmp, now, input, render, cookie, browser, state_dir, pgroup, shell>>

\* detection, aggregation and encoding of the segment, m its summed matrix,
\* then insert_if_absent: INSERT INTO heatmap_minutes.  The id is drawn before
\* the constraint is checked; a unique violation is taken as "already processed"
Persist(d, m) ==
    /\ driver[d].pc = "Detecting"
    /\ id_seq <= MaxInserts
    /\ LET record == IntensityRecord(driver[d].segment.camera_id,
                                     driver[d].segment.timestamp, m)
           inserted == unique_camera_minute(heatmap_minutes, record.camera_id,
                                            record.timestamp)
       IN  /\ heatmap_minutes' =
                  IF inserted
                  THEN heatmap_minutes \cup {[id |-> id_seq] @@ record}
                  ELSE heatmap_minutes
           /\ driver' = [driver EXCEPT
                            ![d].pc = IF inserted THEN "Persisted" ELSE "Skipped",
                            ![d].attempted = TRUE]
    /\ id_seq' = id_seq + 1
    /\ UNCHANGED <<request, call, handler, tmp, now, input, render, cookie, browser, state_dir, pgroup, shell>>

\* the per-segment outcome is reported; the driver is free for the next segment
Report(d) ==
    /\ driver[d].pc \in {"Persisted", "Skipped", "Failed"}
    /\ driver' = [driver EXCEPT ![d] = IdleDriver]
    /\ UNCHANGED <<heatmap_minutes, id_seq, request, call, handler, tmp, now, input, render, cookie, browser, state_dir, pgroup, shell>>

Next ==
    \/ \E d \in Drivers, s \in Segments : Discover(d, s)
    \/ \E d \in Drivers : DetectFail(d)
    \/ \E d \in Drivers, m \in Detected : Persist(d, m)
    \/ \E d \in Drivers : Report(d)

Spec == Init /\ [][Next]_vars

\* C1: after any sequence of inserts the store holds at most one row for each
\* (camera_id, timestamp) pair.
C1_OneRowPerCameraMinute ==
    \A r1 \in heatmap_minutes, r2 \in heatmap_minutes :
        (r1.camera_id = r2.camera_id /\ r1.timestamp = r2.timestamp) => r1 = r2

\* an INSERT for a minute that already had its row has been issued
C1_Witness ==
    \E d \in Drivers :
        /\ driver[d].attempted
        /\ driver[d].pc = "Skipped"
        /\ \E row \in heatmap_minutes :
               /\ row.camera_id = driver[d].segment.camera_id
               /\ row.timestamp = driver[d].segment.timestamp

\* both drivers have issued their INSERT for the same minute
BothInserted(d1, d2) ==
    /\ d1 # d2
    /\ driver[d1].attempted
    /\ driver[d2].attempted
    /\ driver[d1].segment = driver[d2].segment

\* C2: when two drivers race to persist the same (camera, minute), exactly one
\* insert succeeds and the other driver reports the segment as skipped, not failed.
C2_OneWriterWins ==
    \A d1 \in Drivers, d2 \in Drivers :
        BothInserted(d1, d2) =>
            \/ driver[d1].pc = "Persisted" /\ driver[d2].pc = "Skipped"
            \/ driver[d1].pc = "Skipped" /\ driver[d2].pc = "Persisted"

C2_Witness ==
    /\ BothInserted("d1", "d2")
    /\ driver["d2"].pc = "Persisted"
    /\ driver["d1"].pc = "Skipped"
    /\ Cardinality(heatmap_minutes) = 1

Zeros(n) == [i \in 1..n |-> 0]

Tails == {Zeros(n) : n \in 0..MaxTail}

CodecInputs ==
    {[pc |-> "encode", matrix |-> m, tail |-> t, garbled |-> g,
      height |-> sh[1], width |-> sh[2], blob |-> <<>>, result |-> Err("")] :
        m \in Matrices, t \in Tails, g \in BOOLEAN, sh \in Shapes}

InitCodec ==
    /\ heatmap_minutes = {}
    /\ id_seq = 1
    /\ driver = [d \in Drivers |-> IdleDriver]
    /\ handler = NoHandlers
    /\ tmp = NoFiles
    /\ now = 0
    /\ input = NoInput
    /\ cookie = NoCookies
    /\ browser = NoBrowser
    /\ state_dir = NoStateDir
    /\ pgroup = NoGroups
    /\ shell = NoShells
    /\ render = NoRenders
    /\ request = IdleRequest
    /\ call \in CodecInputs

\* the writer: zlib.compress(heatmap.tobytes() + tail), first byte lost if garbled
CodecEncode ==
    /\ call.pc = "encode"
    /\ LET stream == deflate(tobytes(call.matrix.elems) \o call.tail)
       IN  call' = [call EXCEPT
                      !.pc = "decode",
                      !.blob = IF call.garbled THEN Tail(stream) ELSE stream]
    /\ UNCHANGED <<heatmap_minutes, id_seq, driver, request, handler, tmp, now, input, render, cookie, browser, state_dir, pgroup, shell>>

CodecDecode ==
    /\ call.pc = "decode"
    /\ call' = [call EXCEPT
                   !.pc = "done",
                   !.result = decompressHeatmap(call.blob, call.height, call.width)]
    /\ UNCHANGED <<heatmap_minutes, id_seq, driver, request, handler, tmp, now, input, render, cookie, browser, state_dir, pgroup, shell>>

NextCodec == CodecEncode \/ CodecDecode

SpecCodec == InitCodec /\ [][NextCodec]_vars

\* the blob in hand was written by the codec from a matrix of the reader's shape
CodecWellFormed ==
    /\ call.tail = <<>>
    /\ ~call.garbled
    /\ call.height = call.matrix.height
    /\ call.width = call.matrix.width

\* C3: decompressHeatmap returns a matrix only when the decompressed data is
\* exactly height*width*4 bytes long, and raises an error for every other length.
C3_DecodeExactLength ==
    call.pc = "done" =>
        (call.result.ok <=>
            /\ inflate(call.blob).ok
            /\ Len(inflate(call.blob).data) = call.height * call.width * 4)

\* C8: decoding the encoding of a matrix, with the matrix's height and width,
\* returns the matrix element for element.
C8_RoundTrip ==
    (call.pc = "done" /\ CodecWellFormed) => call.result = Ok(call.matrix.elems)

C8_Witness ==
    /\ call.pc = "done"
    /\ CodecWellFormed
    /\ call.result.ok
    /\ \E i \in 1..Len(call.matrix.elems) : call.matrix.elems[i] > 0
    /\ Len(call.matrix.elems) > 1

(***************************************************************************)
(* aggregateHeatmaps as a pure function: a list of records of one shape,   *)
(* and the same list with two of its records exchanged.  The elements      *)
(* include 2^24, where float32 stops holding every integer.                *)
(***************************************************************************)
\* records in one aggregation request
MaxRecords == 3

AggShapes == {<<1, 1>>, <<1, 2>>}
AggVals == {0, 1, 2^24}

Swap(s, i, j) ==
    [k \in 1..Len(s) |-> IF k = i THEN s[j] ELSE IF k = j THEN s[i] ELSE s[k]]

\* the AggregatedHeatmapData of a list of element arrays
DataOf(c, ms) ==
    [height |-> c.height,
     width |-> c.width,
     records |-> [k \in 1..Len(ms) |->
                     IntensityRecord("default", k,
                         [height |-> c.height, width |-> c.width, elems |-> ms[k]])],
     totalMinutes |-> Len(ms)]

InitAggregate ==
    /\ heatmap_minutes = {}
    /\ id_seq = 1
    /\ driver = [d \in Drivers |-> IdleDriver]
    /\ handler = NoHandlers
    /\ tmp = NoFiles
    /\ now = 0
    /\ input = NoInput
    /\ cookie = NoCookies
    /\ browser = NoBrowser
    /\ state_dir = NoStateDir
    /\ pgroup = NoGroups
    /\ shell = NoShells
    /\ render = NoRenders
    /\ request = IdleRequest
    /\ \E sh \in AggShapes, n \in 1..MaxRecords :
           \E ms \in [1..n -> [1..(sh[1] * sh[2]) -> AggVals]],
              p \in {q \in (1..n) \X (1..n) : q[1] < q[2] \/ n = 1} :
               call = [pc |-> "first", height |-> sh[1], width |-> sh[2],
                       matrices |-> ms, i |-> p[1], j |-> p[2],
                       result |-> Err(""), swapped |-> Err("")]

AggregateFirst ==
    /\ call.pc = "first"
    /\ call' = [call EXCEPT
                   !.pc = "second",
                   !.result = aggregateHeatmaps(DataOf(call, call.matrices))]
    /\ UNCHANGED <<heatmap_minutes, id_seq, driver, request, handler, tmp, now, input, render, cookie, browser, state_dir, pgroup, shell>>

AggregateSwapped ==
    /\ call.pc = "second"
    /\ call' = [call EXCEPT
                   !.pc = "done",
                   !.swapped = aggregateHeatmaps(
                                   DataOf(call, Swap(call.matrices, call.i, call.j)))]
    /\ UNCHANGED <<heatmap_minutes, id_seq, driver, request, handler, tmp, now, input, render, cookie, browser, state_dir, pgroup, shell>>

NextAggregate == AggregateFirst \/ AggregateSwapped

SpecAggregate == InitAggregate /\ [][NextAggregate]_vars

\* the exact sum of element i over the records of the call
ExactSum(i) == SumSeq([k \in 1..Len(call.matrices) |-> call.matrices[k][i]])

AggregateIsExactSum ==
    /\ call.result.ok
    /\ Len(call.result.value) = call.height * call.width
    /\ \A i \in 1..(call.height * call.width) : call.result.value[i] = ExactSum(i)
    /\ call.swapped = call.result

StoreOf(present, m) ==
    {[id |-> 1 + Cardinality({t \in present : t.timestamp < s.timestamp})]
        @@ IntensityRecord(s.camera_id, s.timestamp, m[s]) : s \in present}

StoreStates ==
    UNION {{StoreOf(present, m) : m \in [present -> Matrices]} :
              present \in SUBSET Segments}

RenderOptions == {[colormap |-> "jet"], [colormap |-> "jet", quality |-> 50]}

InitRender ==
    /\ heatmap_minutes \in StoreStates
    /\ id_seq = Cardinality(heatmap_minutes) + 1
    /\ driver = [d \in Drivers |-> IdleDriver]
    /\ handler = NoHandlers
    /\ tmp = NoFiles
    /\ now = 0
    /\ input = NoInput
    /\ cookie = NoCookies
    /\ browser = NoBrowser
    /\ state_dir = NoStateDir
    /\ pgroup = NoGroups
    /\ shell = NoShells
    /\ render = NoRenders
    /\ request = IdleRequest
    /\ call = NoCall

\* a request served by the route handler
RouteGET(cameraId, date) ==
    /\ request.pc = "idle"
    /\ request' = [request EXCEPT
                      !.pc = "responded",
                      !.kind = "route",
                      !.camera_id = cameraId,
                      !.date = date,
                      !.response = GET(heatmap_minutes, cameraId, date)]
    /\ UNCHANGED <<heatmap_minutes, id_seq, driver, call, handler, tmp, now, input, render, cookie, browser, state_dir, pgroup, shell>>

\* render_heatmap, first half: the DAO's record set of the day, or "no data"
RenderFetch(cameraId, date) ==
    /\ request.pc = "idle"
    /\ LET data == getAggregatedHeatmapData(heatmap_minutes, cameraId, date)
       IN  request' = [request EXCEPT
                          !.pc = IF data = <<>> THEN "nodata" ELSE "fetched",
                          !.kind = "render",
                          !.camera_id = cameraId,
                          !.date = date,
                          !.data = data]
    /\ UNCHANGED <<heatmap_minutes, id_seq, driver, call, handler, tmp, now, input, render, cookie, browser, state_dir, pgroup, shell>>

\* render_heatmap, second half: generateHeatmapImage on the data fetched
RenderGenerate(options) ==
    /\ request.pc = "fetched"
    /\ LET data == request.data[1]
           aggregated == aggregateHeatmaps(data)
           result == generateHeatmapImage(data, options)
       IN  request' = [request EXCEPT
                          !.pc = IF result.ok THEN "rendered" ELSE "failed",
                          !.aggregated = aggregated,
                          !.maxValue = IF aggregated.ok
                                       THEN normalisationMax(aggregated.value)
                                       ELSE 0,
                          !.result = result]
    /\ UNCHANGED <<heatmap_minutes, id_seq, driver, call, handler, tmp, now, input, render, cookie, browser, state_dir, pgroup, shell>>

NextRender ==
    \/ \E cameraId \in Cameras \cup {""}, date \in Dates \cup {""} :
           RouteGET(cameraId, date)
    \/ \E cameraId \in Cameras, date \in Dates : RenderFetch(cameraId, date)
    \/ \E options \in RenderOptions : RenderGenerate(options)

SpecRender == InitRender /\ [][NextRender]_vars

\* the three bytes of pixel i of a raw RGB buffer
Pixel(raw, i) == SubSeq(raw, 3 * i - 2, 3 * i)

\* a render request that has gone through generateHeatmapImage
Generated == request.kind = "render" /\ request.pc \in {"rendered", "failed"}

SameShape(records) ==
    \A a \in 1..Len(records), b \in 1..Len(records) :
        records[a].height = records[b].height /\ records[a].width = records[b].width

\* C4: when the records of one aggregation request do not all have the same
\* height and width, rendering fails with an error and returns no image.
C4_ShapeMismatchReported ==
    (Generated /\ ~SameShape(request.data[1].records)) =>
        (request.pc = "failed" /\ ~request.result.ok)

\* no stored row of the camera starts within the day
NoRecordOn(cameraId, date) ==
    ~\E row \in heatmap_minutes :
        /\ row.camera_id = cameraId
        /\ row.timestamp >= DateParse(date)
        /\ row.timestamp < DateParse(date) + DayMs

\* C5: for a camera and day with no record the DAO returns null and the
\* outcome is "no data" (404 from the endpoint): no error, and no image is
\* generated for an empty record set.
C5_NoDataOutcome ==
    /\ (request.kind = "render" /\ NoRecordOn(request.camera_id, request.date)) =>
           /\ request.pc = "nodata"
           /\ request.data = <<>>
           /\ ~request.result.ok
    /\ (/\ request.kind = "route"
        /\ request.camera_id # ""
        /\ request.date # ""
        /\ NoRecordOn(request.camera_id, request.date)) =>
           /\ request.response.status = 404
           /\ request.response.body = <<>>
    /\ Generated => request.data[1].records # <<>>

C5_Witness ==
    /\ request.kind = "render"
    /\ request.pc = "nodata"
    /\ request.camera_id = "cam1"
    /\ Cardinality(heatmap_minutes) = 2

\* every record of the request decodes, with the request's shape, to zeros
AllZeroRequest ==
    /\ Generated
    /\ \A k \in 1..Len(request.data[1].records) :
           LET m == decompressHeatmap(request.data[1].records[k].intensity_array,
                                      request.data[1].height, request.data[1].width)
           IN  m.ok /\ \A i \in 1..Len(m.value) : m.value[i] = 0

\* C6: when every decoded matrix is all zero, generateHeatmapImage divides by
\* 1, every pixel gets colormap(0) = (0, 0, 128), and an image of width x
\* height pixels is returned.
C6_AllZeroImage ==
    AllZeroRequest =>
        /\ request.pc = "rendered"
        /\ request.maxValue = 1
        /\ request.result.value.width = request.data[1].width
        /\ request.result.value.height = request.data[1].height
        /\ Len(request.result.value.raw) =
               3 * request.data[1].width * request.data[1].height
        /\ \A i \in 1..(request.data[1].width * request.data[1].height) :
               /\ request.aggregated.value[i] = 0
               /\ Pixel(request.result.value.raw, i) = applyJetColormap(0, 1)
               /\ Pixel(request.result.value.raw, i) = <<0, 0, 128>>

C6_Witness ==
    /\ AllZeroRequest
    /\ request.pc = "rendered"
    /\ Len(request.data[1].records) = 2
    /\ request.data[1].width = 2

\* C10: in an image whose aggregate maximum is positive, every pixel at the
\* maximum is colormap(1), red alone, and every pixel of value 0 is
\* colormap(0) = (0, 0, 128).
C10_MaxRedZeroBlue ==
    (request.pc = "rendered" /\ MaxSeq(request.aggregated.value) > 0) =>
        \A i \in 1..Len(request.aggregated.value) :
            LET pixel == Pixel(request.result.value.raw, i)
            IN  /\ request.aggregated.value[i] = MaxSeq(request.aggregated.value) =>
                       /\ pixel = applyJetColormap(1, 1)
                       /\ pixel[1] > 0 /\ pixel[2] = 0 /\ pixel[3] = 0
                /\ request.aggregated.value[i] = 0 =>
                       /\ pixel = applyJetColormap(0, 1)
                       /\ pixel = <<0, 0, 128>>

C10_Witness ==
    /\ request.pc = "rendered"
    /\ Len(request.data[1].records) = 2
    /\ request.aggregated.value = <<2, 0>>
    /\ request.result.value.raw = <<128, 0, 0, 0, 0, 128>>

(***************************************************************************)
(* applyJetColormap as a pure function of a normalised value num / den.    *)
(***************************************************************************)
\* normalised values are the fractions num / den with den up to MaxDen
MaxDen == 16

InitColormap ==
    /\ heatmap_minutes = {}
    /\ id_seq = 1
    /\ driver = [d \in Drivers |-> IdleDriver]
    /\ handler = NoHandlers
    /\ tmp = NoFiles
    /\ now = 0
    /\ input = NoInput
    /\ cookie = NoCookies
    /\ browser = NoBrowser
    /\ state_dir = NoStateDir
    /\ pgroup = NoGroups
    /\ shell = NoShells
    /\ render = NoRenders
    /\ request = IdleRequest
    /\ \E den \in 1..MaxDen : \E num \in (0 - 1)..(den + 1) :
           call = [pc |-> "colormap", num |-> num, den |-> den, rgb |-> <<>>]

ColormapApply ==
    /\ call.pc = "colormap"
    /\ call' = [call EXCEPT !.pc = "coloured",
                            !.rgb = applyJetColormap(call.num, call.den)]
    /\ UNCHANGED <<heatmap_minutes, id_seq, driver, request, handler, tmp, now, input, render, cookie, browser, state_dir, pgroup, shell>>

NextColormap == ColormapApply

SpecColormap == InitColormap /\ [][NextColormap]_vars

\* the value of the call is k / 8
AtEighth(k) == call.pc = "coloured" /\ 8 * call.num = k * call.den

\* the branch ending at k / 8 and the branch starting there both give rgb,
\* and so does the function
Joined(k, ending, starting, rgb) ==
    AtEighth(k) =>
        /\ jetSegment(ending, call.num, call.den) = rgb
        /\ jetSegment(starting, call.num, call.den) = rgb
        /\ jetBranch(call.num, call.den) = starting
        /\ call.rgb = rgb

\* C11: at the breakpoints 0.125, 0.375, 0.625 and 0.875 the segment ending
\* there and the segment starting there give the same RGB: blue (0,0,255),
\* cyan (0,255,255), yellow (255,255,0) and red (255,0,0).
C11_BreakpointsContinuous ==
    /\ Joined(1, 1, 2, <<0, 0, 255>>)
    /\ Joined(3, 2, 3, <<0, 255, 255>>)
    /\ Joined(5, 3, 4, <<255, 255, 0>>)
    /\ Joined(7, 4, 5, <<255, 0, 0>>)

C11_Witness ==
    /\ AtEighth(1)
    /\ call.den = 16
    /\ call.rgb = <<0, 0, 255>>

(***************************************************************************)
(* HeatmapDao.getHeatmapMinutes over a store of several cameras and        *)
(* minutes.                                                                *)
(***************************************************************************)
\* starts of the minutes stored, and the ends of the ranges asked for
QueryTimes == {0, 60000, 120000}

QuerySegments == {[camera_id |-> c, timestamp |-> t] : c \in Cameras, t \in QueryTimes}

\* the rows of the segments in `present`; ids run against the timestamps
QueryStore(present) ==
    {[id |-> 1 + Cardinality({t \in present :
                                 \/ t.timestamp > s.timestamp
                                 \/ /\ t.timestamp = s.timestamp
                                    /\ t.camera_id = "cam1"
                                    /\ s.camera_id = "cam2"})]
        @@ IntensityRecord(s.camera_id, s.timestamp,
                           [height |-> 1, width |-> 1, elems |-> <<1>>]) :
        s \in present}

InitQuery ==
    /\ \E present \in SUBSET QuerySegments : heatmap_minutes = QueryStore(present)
    /\ id_seq = Cardinality(heatmap_minutes) + 1
    /\ driver = [d \in Drivers |-> IdleDriver]
    /\ handler = NoHandlers
    /\ tmp = NoFiles
    /\ now = 0
    /\ input = NoInput
    /\ cookie = NoCookies
    /\ browser = NoBrowser
    /\ state_dir = NoStateDir
    /\ pgroup = NoGroups
    /\ shell = NoShells
    /\ render = NoRenders
    /\ request = IdleRequest
    /\ \E cameraId \in Cameras, startDate \in QueryTimes, endDate \in QueryTimes :
           call = [pc |-> "query", cameraId |-> cameraId, startDate |-> startDate,
                   endDate |-> endDate, result |-> <<>>]

QueryRun ==
    /\ call.pc = "query"
    /\ call' = [call EXCEPT
                   !.pc = "queried",
                   !.result = getHeatmapMinutes(heatmap_minutes, call.cameraId,
                                                call.startDate, call.endDate)]
    /\ UNCHANGED <<heatmap_minutes, id_seq, driver, request, handler, tmp, now, input, render, cookie, browser, state_dir, pgroup, shell>>

NextQuery == QueryRun

SpecQuery == InitQuery /\ [][NextQuery]_vars

\* the stored rows of the camera with startDate <= timestamp < endDate
InRange ==
    {row \in heatmap_minutes :
        /\ row.camera_id = call.cameraId
        /\ call.startDate <= row.timestamp
        /\ row.timestamp < call.endDate}

\* C12: getHeatmapMinutes(camera, start, end) returns exactly the stored rows
\* of the camera with start <= timestamp < end (a row at end excluded, a row
\* at start included), in ascending timestamp order.
C12_HalfOpenRangeAscending ==
    call.pc = "queried" =>
        /\ {call.result[i] : i \in 1..Len(call.result)} = InRange
        /\ Len(call.result) = Cardinality(InRange)
        /\ \A i \in 1..Len(call.result), j \in 1..Len(call.result) :
               i < j => call.result[i].timestamp < call.result[j].timestamp
        /\ \A i \in 1..Len(call.result) : call.result[i].timestamp # call.endDate
        /\ \A row \in heatmap_minutes :
               (row.camera_id = call.cameraId /\ row.timestamp = call.startDate
                    /\ call.startDate < call.endDate)
                   => \E i \in 1..Len(call.result) : call.result[i] = row

\* a range with a row at its start, one inside and one at its end, and a row
\* of the other camera inside
C12_Witness ==
    /\ call.pc = "queried"
    /\ call.startDate = 0
    /\ call.endDate = 120000
    /\ Cardinality(heatmap_minutes) = 6
    /\ Len(call.result) = 2
    /\ call.result[1].timestamp = 0
    /\ call.result[1].id > call.result[2].id

(***************************************************************************)
(* GET /api/heatmap/image, handlers of concurrent requests interleaving at *)
(* their awaits: the count query, the exec of the script, readFile and     *)
(* unlink.                                                                 *)
(***************************************************************************)
\* Date.now() advances at most MaxClock milliseconds in one behaviour
MaxClock == 2

RouteMatrices == {[height |-> 1, width |-> 1, elems |-> <<1>>],
                  [height |-> 1, width |-> 2, elems |-> <<0, 1>>]}

RouteStores ==
    UNION {{StoreOf(present, m) : m \in [present -> RouteMatrices]} :
              present \in SUBSET Segments}

\* path.join("/tmp", `heatmap_${cameraId}_${date}_${Date.now()}.jpg`)
tempFilePath(cameraId, date, t) == <<"/tmp", "heatmap", cameraId, date, t, "jpg">>

FileExists(path) == \E f \in tmp : f.path = path
FileContent(path) == (CHOOSE f \in tmp : f.path = path).content
WriteFile(path, content) ==
    {f \in tmp : f.path # path} \cup {[path |-> path, content |-> content]}
Unlink(path) == {f \in tmp : f.path # path}

InitRoute ==
    /\ heatmap_minutes \in RouteStores
    /\ id_seq = Cardinality(heatmap_minutes) + 1
    /\ driver = [d \in Drivers |-> IdleDriver]
    /\ request = IdleRequest
    /\ call = NoCall
    /\ handler = NoHandlers
    /\ tmp = {}
    /\ now = 0
    /\ input = NoInput
    /\ cookie = NoCookies
    /\ browser = NoBrowser
    /\ state_dir = NoStateDir
    /\ pgroup = NoGroups
    /\ shell = NoShells
    /\ render = NoRenders

\* lines 11-22: the parameters are read and checked
RouteRequest(h, cameraId, date) ==
    /\ handler[h].pc = "idle"
    /\ handler' = [handler EXCEPT ![h] =
           IF missingParams(cameraId, date)
           THEN [@ EXCEPT !.pc = "responded", !.camera_id = cameraId, !.date = date,
                          !.response = BadRequest]
           ELSE [@ EXCEPT !.pc = "count", !.camera_id = cameraId, !.date = date]]
    /\ UNCHANGED <<heatmap_minutes, id_seq, driver, request, call, tmp, now, input, render, cookie, browser, state_dir, pgroup, shell>>

\* lines 26-63: the count query answers; with rows to show the temporary path
\* is made from Date.now() and the script is started
RouteCount(h) ==
    /\ handler[h].pc = "count"
    /\ LET count == countMinutes(heatmap_minutes, handler[h].camera_id, handler[h].date)
           queried == Append(handler[h].effects, [op |-> "db.count"])
       IN  handler' = [handler EXCEPT ![h] =
               IF count = 0
               THEN [@ EXCEPT !.pc = "responded", !.effects = queried,
                              !.response = NotFound]
               ELSE [@ EXCEPT
                        !.pc = "exec",
                        !.tempFile = tempFilePath(handler[h].camera_id,
                                                  handler[h].date, now),
                        !.effects = Append(queried,
                            [op |-> "exec",
                             script |-> "analytics/generate_heatmap_image.py",
                             args |-> <<"--date", "--camera-id", "--output">>])]]
    /\ UNCHANGED <<heatmap_minutes, id_seq, driver, request, call, tmp, now, input, render, cookie, browser, state_dir, pgroup, shell>>

\* the millisecond in the name of a temporary file
StartedAt(tempFile) == tempFile[5]

\* line 63: the script ends, milliseconds after it was started, having written
\* the image to --output, or fails
RouteExec(h) ==
    /\ handler[h].pc = "exec"
    /\ now > StartedAt(handler[h].tempFile)
    /\ LET image == generate_heatmap_image(heatmap_minutes, handler[h].camera_id,
                                           handler[h].date)
       IN  /\ handler' = [handler EXCEPT ![h] =
                  IF image.ok
                  THEN [@ EXCEPT !.pc = "read", !.generated = image]
                  ELSE [@ EXCEPT !.pc = "responded", !.generated = image,
                                 !.response = ServerError(image.error)]]
           /\ tmp' = IF image.ok THEN WriteFile(handler[h].tempFile, image.value)
                     ELSE tmp
    /\ UNCHANGED <<heatmap_minutes, id_seq, driver, request, call, now, input, render, cookie, browser, state_dir, pgroup, shell>>

\* line 66: readFile(tempFile)
RouteReadFile(h) ==
    /\ handler[h].pc = "read"
    /\ handler' = [handler EXCEPT ![h] =
           IF FileExists(handler[h].tempFile)
           THEN [@ EXCEPT !.pc = "unlink",
                          !.response = ImageResponse(FileContent(handler[h].tempFile))]
           ELSE [@ EXCEPT !.pc = "responded",
                          !.response = ServerError("ENOENT: no such file or directory")]]
    /\ UNCHANGED <<heatmap_minutes, id_seq, driver, request, call, tmp, now, input, render, cookie, browser, state_dir, pgroup, shell>>

\* lines 69-79: unlink(tempFile), any error of it dropped, and the image is sent
RouteUnlink(h) ==
    /\ handler[h].pc = "unlink"
    /\ tmp' = Unlink(handler[h].tempFile)
    /\ handler' = [handler EXCEPT ![h].pc = "responded"]
    /\ UNCHANGED <<heatmap_minutes, id_seq, driver, request, call, now, input, render, cookie, browser, state_dir, pgroup, shell>>

\* a millisecond passes
Tick ==
    /\ now < MaxClock
    /\ now' = now + 1
    /\ UNCHANGED <<heatmap_minutes, id_seq, driver, request, call, handler, tmp, input, render, cookie, browser, state_dir, pgroup, shell>>

NextRoute ==
    \/ \E h \in Handlers, cameraId \in Cameras \cup {""}, date \in Dates \cup {""} :
           RouteRequest(h, cameraId, date)
    \/ \E h \in Handlers : RouteCount(h)
    \/ \E h \in Handlers : RouteExec(h)
    \/ \E h \in Handlers : RouteReadFile(h)
    \/ \E h \in Handlers : RouteUnlink(h)
    \/ Tick

SpecRoute == InitRoute /\ [][NextRoute]_vars

\* handler h got past the count query with rows to show
Rendering(h) ==
    /\ handler[h].pc \in {"exec", "read", "unlink", "responded"}
    /\ \E i \in 1..Len(handler[h].effects) : handler[h].effects[i].op = "exec"

\* C13: an image made without a chosen quality is encoded at quality 90:
\* generateHeatmapImage uses 90 when options.quality is absent, and the image
\* endpoint renders each request through generateHeatmapImage with quality 90.
C13_DefaultQuality90 ==
    \A h \in Handlers :
        Rendering(h) =>
            /\ LET data == getAggregatedHeatmapData(heatmap_minutes, handler[h].camera_id,
                                                    handler[h].date)
                   image == generateHeatmapImage(data[1], [colormap |-> "jet"])
               IN  (data # <<>> /\ image.ok) => image.value.quality = 90
            /\ \E i \in 1..Len(handler[h].effects) :
                   handler[h].effects[i] = [op |-> "generateHeatmapImage", quality |-> 90]

\* C14: a request with camera_id or date missing is answered 400 with error
\* "camera_id and date required", with no database query and no image generation.
C14_MissingParams400 ==
    \A h \in Handlers :
        (handler[h].pc # "idle" /\ (handler[h].camera_id = "" \/ handler[h].date = "")) =>
            /\ handler[h].pc = "responded"
            /\ handler[h].response.status = 400
            /\ handler[h].response.error = "camera_id and date required"
            /\ handler[h].effects = <<>>
            /\ handler[h].generated = Err("")
            /\ handler[h].tempFile = <<>>

C14_Witness ==
    /\ handler["h1"].pc = "responded"
    /\ handler["h1"].camera_id = "cam1"
    /\ handler["h1"].date = ""
    /\ handler["h1"].response.status = 400
    /\ heatmap_minutes # {}

\* C15: when no heatmap data exists for the camera and date the endpoint
\* answers 404 with error "No data found for this date".
C15_NotFoundMessage ==
    \A h \in Handlers :
        (/\ handler[h].pc = "responded"
         /\ handler[h].camera_id # ""
         /\ handler[h].date # ""
         /\ NoRecordOn(handler[h].camera_id, handler[h].date)) =>
            /\ handler[h].response.status = 404
            /\ handler[h].response.error = "No data found for this date"

\* C16: when data exists and the image generation succeeds the endpoint answers
\* 200 with Content-Type image/jpeg, Cache-Control "public, max-age=3600" and
\* the bytes of the image generated for that request.
C16_ImageResponse ==
    \A h \in Handlers :
        (handler[h].pc = "responded" /\ handler[h].generated.ok) =>
            /\ handler[h].response.status = 200
            /\ handler[h].response.contentType = "image/jpeg"
            /\ handler[h].response.cacheControl = "public, max-age=3600"
            /\ handler[h].response.body = handler[h].generated.value

\* the generation started by handler h has failed
GenerationFailed(h) ==
    /\ Rendering(h)
    /\ handler[h].pc = "responded"
    /\ ~handler[h].generated.ok

\* C17: a request whose image generation fails is answered 500 with error
\* "Failed to generate image" and details equal to the failure's message; no
\* step of any handler changes a stored row, and the failing step leaves the
\* other handlers as they were.
C17_GenerationFailure500 ==
    /\ [](\A h \in Handlers :
              GenerationFailed(h) =>
                  /\ handler[h].response.status = 500
                  /\ handler[h].response.error = "Failed to generate image"
                  /\ handler[h].response.details = handler[h].generated.error
                  /\ handler[h].response.body = <<>>)
    /\ [][/\ heatmap_minutes' = heatmap_minutes
          /\ \A h \in Handlers :
                 (handler[h].pc = "exec" /\ handler'[h].pc = "responded") =>
                     /\ tmp' = tmp
                     /\ \A g \in Handlers \ {h} : handler'[g] = handler[g]]_vars

C17_Witness ==
    /\ GenerationFailed("h1")
    /\ handler["h1"].response.details = "Invalid heatmap dimensions"
    /\ Cardinality(heatmap_minutes) = 2
    /\ handler["h2"].pc = "exec"

(***************************************************************************)
(* calculateHeatmapStats over the record sets the DAO returns.             *)
(***************************************************************************)
\* the cached statistics of a record: total_intensity and max_intensity
CachedStats == {[total_intensity |-> t, max_intensity |-> m] :
                   t \in {0, 45, 46}, m \in {0, 9}}

\* the record set of n minutes with the cached statistics c[1] .. c[n]
StatsData(c) ==
    [height |-> 1, width |-> 1, totalMinutes |-> Len(c),
     records |-> [k \in 1..Len(c) |->
                     [id |-> k,
                      total_intensity |-> c[k].total_intensity,
                      max_intensity |-> c[k].max_intensity]
                         @@ IntensityRecord("cam1", 60000 * (k - 1),
                                            [height |-> 1, width |-> 1, elems |-> <<0>>])]]

InitStats ==
    /\ heatmap_minutes = {}
    /\ id_seq = 1
    /\ driver = [d \in Drivers |-> IdleDriver]
    /\ handler = NoHandlers
    /\ tmp = NoFiles
    /\ now = 0
    /\ input = NoInput
    /\ cookie = NoCookies
    /\ browser = NoBrowser
    /\ state_dir = NoStateDir
    /\ pgroup = NoGroups
    /\ shell = NoShells
    /\ render = NoRenders
    /\ request = IdleRequest
    /\ \E n \in 1..MaxRecords : \E c \in [1..n -> CachedStats] :
           call = [pc |-> "stats", data |-> StatsData(c), stats |-> <<>>]

StatsRun ==
    /\ call.pc = "stats"
    /\ call' = [call EXCEPT !.pc = "counted", !.stats = calculateHeatmapStats(call.data)]
    /\ UNCHANGED <<heatmap_minutes, id_seq, driver, request, handler, tmp, now, input, render, cookie, browser, state_dir, pgroup, shell>>

NextStats == StatsRun

SpecStats == InitStats /\ [][NextStats]_vars

\* C18: calculateHeatmapStats returns totalIntensity = the sum of the records'
\* total_intensity, maxIntensity = the largest max_intensity, totalMinutes = the
\* number of minutes and avgIntensity = totalIntensity / minutes (totals 45 and
\* 45 give 90 and average 45).
C18_StatsOfRecordSet ==
    call.pc = "counted" =>
        LET records == call.data.records
            n == Len(records)
        IN  /\ call.stats.totalIntensity =
                   SumSeq([k \in 1..n |-> records[k].total_intensity])
            /\ \A k \in 1..n : call.stats.maxIntensity >= records[k].max_intensity
            /\ \E k \in 1..n : call.stats.maxIntensity = records[k].max_intensity
            /\ call.stats.totalMinutes = n
            /\ call.stats.avgIntensity.den = n
            /\ call.stats.avgIntensity.num = call.stats.totalIntensity
            /\ (n = 2 /\ records[1].total_intensity = 45 /\ records[2].total_intensity = 45)
                   => /\ call.stats.totalIntensity = 90
                      /\ call.stats.avgIntensity.num = 45 * call.stats.avgIntensity.den

C18_Witness ==
    /\ call.pc = "counted"
    /\ Len(call.data.records) = 2
    /\ call.data.records[1].total_intensity = 45
    /\ call.data.records[2].total_intensity = 45
    /\ call.stats.totalIntensity = 90
    /\ call.stats.maxIntensity = 9

(***************************************************************************)
(* Concurrent calls of generateHeatmapImage and calculateHeatmapStats on   *)
(* one AggregatedHeatmapData, interleaving at the await of each record's   *)
(* decompressHeatmap.                                                      *)
(***************************************************************************)
InitShared ==
    /\ heatmap_minutes \in RouteStores \ {{}}
    /\ id_seq = Cardinality(heatmap_minutes) + 1
    /\ driver = [d \in Drivers |-> IdleDriver]
    /\ request = IdleRequest
    /\ call = NoCall
    /\ handler = NoHandlers
    /\ tmp = NoFiles
    /\ now = 0
    /\ input = getAggregatedHeatmapData(heatmap_minutes, "cam1", "1970-01-01")[1]
    /\ render = NoRenders
    /\ cookie = NoCookies
    /\ browser = NoBrowser
    /\ state_dir = NoStateDir
    /\ pgroup = NoGroups
    /\ shell = NoShells

\* lines 106-109, 77-79: the options are read and the sum starts at zero
RenderBegin(r, options) ==
    /\ render[r].pc = "idle"
    /\ render' = [render EXCEPT ![r] =
           [@ EXCEPT !.pc = "adding", !.options = options, !.k = 1,
                     !.aggregated = [i \in 1..(input.height * input.width) |-> 0]]]
    /\ UNCHANGED <<heatmap_minutes, id_seq, driver, request, call, handler, tmp, now,
                   input, cookie, browser, state_dir, pgroup, shell>>

\* lines 82-91: record k is decoded and added to the sum, or the decoder throws
RenderAdd(r) ==
    /\ render[r].pc = "adding"
    /\ render[r].k <= Len(input.records)
    /\ LET heatmap == decompressHeatmap(input.records[render[r].k].intensity_array,
                                        input.height, input.width)
       IN  render' = [render EXCEPT ![r] =
               IF heatmap.ok
               THEN [@ EXCEPT !.k = render[r].k + 1,
                              !.aggregated = accumulate(render[r].aggregated,
                                                        heatmap.value)]
               ELSE [@ EXCEPT !.pc = "thrown", !.result = heatmap]]
    /\ input' = [input EXCEPT !.records[render[r].k] = afterDecode(@)]
    /\ UNCHANGED <<heatmap_minutes, id_seq, driver, request, call, handler, tmp, now, cookie, browser, state_dir, pgroup, shell>>

\* lines 112-149: the sum is normalised, coloured and encoded
RenderEncode(r) ==
    /\ render[r].pc = "adding"
    /\ render[r].k > Len(input.records)
    /\ LET aggregated == render[r].aggregated
           quality == IF "quality" \in DOMAIN render[r].options
                      THEN render[r].options.quality ELSE DefaultQuality
       IN  render' = [render EXCEPT ![r] =
               [@ EXCEPT !.pc = "returned",
                         !.result = Ok([width |-> input.width,
                                        height |-> input.height,
                                        channels |-> 3,
                                        quality |-> quality,
                                        raw |-> rgbBuffer(aggregated,
                                                    normalisationMax(aggregated))])]]
    /\ UNCHANGED <<heatmap_minutes, id_seq, driver, request, call, handler, tmp, now,
                   input, cookie, browser, state_dir, pgroup, shell>>

\* calculateHeatmapStats(data), synchronous
RenderStats(r) ==
    /\ render[r].stats = <<>>
    /\ render' = [render EXCEPT ![r].stats = <<calculateHeatmapStats(input)>>]
    /\ UNCHANGED <<heatmap_minutes, id_seq, driver, request, call, handler, tmp, now,
                   input, cookie, browser, state_dir, pgroup, shell>>

NextShared ==
    \/ \E r \in Renders, options \in RenderOptions : RenderBegin(r, options)
    \/ \E r \in Renders : RenderAdd(r)
    \/ \E r \in Renders : RenderEncode(r)
    \/ \E r \in Renders : RenderStats(r)

SpecShared == InitShared /\ [][NextShared]_vars

\* C19: rendering is read-only.  No step of generateHeatmapImage or
\* calculateHeatmapStats, returning or throwing, changes an input record or a
\* stored row, also with several renders interleaved over the same records;
\* and each render returns what it returns when run alone.
C19_RenderReadOnly ==
    /\ [][input' = input /\ heatmap_minutes' = heatmap_minutes]_vars
    /\ [](/\ <<input>> = getAggregatedHeatmapData(heatmap_minutes, "cam1", "1970-01-01")
          /\ \A r \in Renders :
                 /\ render[r].pc \in {"returned", "thrown"} =>
                        render[r].result = generateHeatmapImage(input, render[r].options)
                 /\ render[r].stats # <<>> =>
                        render[r].stats = <<calculateHeatmapStats(input)>>)

\* one render has returned, statistics taken, while the other is between the
\* two records of the same input
C19_Witness ==
    /\ Len(input.records) = 2
    /\ render["r1"].pc = "adding"
    /\ render["r1"].k = 2
    /\ render["r2"].pc = "returned"
    /\ render["r2"].stats # <<>>

\* C20: for non-negative matrices every value handed to the colour map is
\* aggregate[i] / max with max the largest element of the aggregate (1 if that
\* is 0), it lies in [0, 1], and when the largest element is positive at least
\* one pixel is normalised to exactly 1.
C20_NormalisedInUnitRange ==
    (request.kind = "render" /\ request.pc = "rendered") =>
        LET aggregated == request.aggregated.value
            maxValue == request.maxValue
        IN  /\ maxValue > 0
            /\ maxValue = IF MaxSeq(aggregated) = 0 THEN 1 ELSE MaxSeq(aggregated)
            /\ \A i \in 1..Len(aggregated) :
                   /\ 0 <= aggregated[i]
                   /\ aggregated[i] <= maxValue
                   /\ Pixel(request.result.value.raw, i) =
                          applyJetColormap(aggregated[i], maxValue)
            /\ MaxSeq(aggregated) > 0 =>
                   \E i \in 1..Len(aggregated) : aggregated[i] = maxValue

\* an aggregate of two records normalised to 1/2 and 1
C20_Witness ==
    /\ request.kind = "render"
    /\ request.pc = "rendered"
    /\ Len(request.data[1].records) = 2
    /\ request.aggregated.value = <<1, 2>>
    /\ request.maxValue = 2

(***************************************************************************)
(* Retention: cleanup_old_heatmaps of migration 002 run against the store  *)
(* the pipeline fills.                                                     *)
(***************************************************************************)
\* the instants NOW() takes in a run
RetentionClock == {60000, DayMs + 30000}
\* the retention_days a caller passes
RetentionDays == {0, 1}

\* the summed matrices of the segments the pipeline stores in this run
RetentionDetected == {[height |-> 1, width |-> 1, elems |-> <<v>>] : v \in {0, 1}}

\* a cutoff that takes the row at the cutoff as well
cleanup_old_heatmaps_inclusive(rows, nowMs, retention_days) ==
    LET cutoff_date == nowMs - retention_days * DayMs
        kept == {row \in rows : row.timestamp > cutoff_date}
    IN  [rows |-> kept, deleted_count |-> Cardinality(rows \ kept)]

\* cutoff_date := NOW() - retention_days days; DELETE FROM heatmap_minutes
\* WHERE timestamp < cutoff_date; the result is ROW_COUNT
cleanup_old_heatmaps(rows, nowMs, retention_days) ==
    LET cutoff_date == nowMs - retention_days * DayMs
        kept == {row \in rows : ~(row.timestamp < cutoff_date)}
    IN  [rows |-> kept, deleted_count |-> Cardinality(rows \ kept)]

InitRetention ==
    /\ heatmap_minutes = {}
    /\ id_seq = 1
    /\ driver = [d \in Drivers |-> IdleDriver]
    /\ handler = NoHandlers
    /\ tmp = NoFiles
    /\ now \in RetentionClock
    /\ input = NoInput
    /\ cookie = NoCookies
    /\ browser = NoBrowser
    /\ state_dir = NoStateDir
    /\ pgroup = NoGroups
    /\ shell = NoShells
    /\ render = NoRenders
    /\ request = IdleRequest
    /\ call = NoCall

\* SELECT cleanup_old_heatmaps(retention_days), one statement of one transaction
Cleanup(retention_days) ==
    /\ call.pc = "none"
    /\ LET done == cleanup_old_heatmaps(heatmap_minutes, now, retention_days)
       IN  /\ heatmap_minutes' = done.rows
           /\ call' = [pc |-> "returned", retention_days |-> retention_days,
                       deleted_count |-> done.deleted_count]
    /\ UNCHANGED <<id_seq, driver, request, handler, tmp, now, input, render, cookie, browser, state_dir, pgroup, shell>>

\* the caller has read deleted_count
CleanupDone ==
    /\ call.pc = "returned"
    /\ call' = NoCall
    /\ UNCHANGED <<heatmap_minutes, id_seq, driver, request, handler, tmp, now, input, render, cookie, browser, state_dir, pgroup, shell>>

NextRetention ==
    \/ \E d \in Drivers, s \in Segments : Discover(d, s)
    \/ \E d \in Drivers : DetectFail(d)
    \/ \E d \in Drivers, m \in RetentionDetected : Persist(d, m)
    \/ \E d \in Drivers : Report(d)
    \/ \E retention_days \in RetentionDays : Cleanup(retention_days)
    \/ CleanupDone

SpecRetention == InitRetention /\ [][NextRetention]_vars

\* C21: cleanup_old_heatmaps(d) deletes exactly the rows whose timestamp is
\* earlier than now - d days, returns how many it deleted and leaves every other
\* row as it was; no other operation updates or deletes a stored row.
C21_CleanupDeletesOnlyOldRows ==
    [][IF call.pc = "none" /\ call'.pc = "returned"
       THEN LET cutoff == now - call'.retention_days * DayMs
                old == {row \in heatmap_minutes : row.timestamp < cutoff}
            IN  /\ heatmap_minutes' = heatmap_minutes \ old
                /\ call'.deleted_count = Cardinality(old)
       ELSE heatmap_minutes \subseteq heatmap_minutes']_vars

\* a cleanup has deleted one of two rows and kept the other
C21_Witness ==
    /\ call.pc = "returned"
    /\ call.deleted_count = 1
    /\ Cardinality(heatmap_minutes) = 1

(***************************************************************************)
(* The viewer's login: the cookie jar, document.cookie, the Cookie header, *)
(* lib/auth.ts, the useAuth hook, the login page and the middleware.       *)
(***************************************************************************)
\* String.prototype.includes and startsWith
includes(s, t) ==
    \E i \in 1..(Len(s) - Len(t) + 1) : SubSeq(s, i, i + Len(t) - 1) = t
startsWith(s, t) == Len(s) >= Len(t) /\ SubSeq(s, 1, Len(t)) = t

\* the first index from `from` on at which t occurs in s, 0 when there is none
RECURSIVE IndexOf(_, _, _)
IndexOf(s, t, from) ==
    IF from + Len(t) - 1 > Len(s) THEN 0
    ELSE IF SubSeq(s, from, from + Len(t) - 1) = t THEN from
    ELSE IndexOf(s, t, from + 1)

\* String.prototype.split on a separator
RECURSIVE Split(_, _)
Split(s, sep) ==
    LET i == IndexOf(s, sep, 1)
    IN  IF i = 0 THEN <<s>>
        ELSE <<SubSeq(s, 1, i - 1)>> \o Split(SubSeq(s, i + Len(sep), Len(s)), sep)

\* "name=value" of each cookie, joined by "; "
RECURSIVE Join(_)
Join(cookies) ==
    IF cookies = <<>> THEN ""
    ELSE IF Len(cookies) = 1 THEN cookies[1].name \o "=" \o cookies[1].value
    ELSE cookies[1].name \o "=" \o cookies[1].value \o "; " \o Join(Tail(cookies))

\* the cookies of the jar whose expiry lies ahead
Unexpired(jar, day) == SelectSeq(jar, LAMBDA c : c.expires > day)

\* the getter of document.cookie: the cookies a script may see
documentCookie(jar) == Join(SelectSeq(jar, LAMBDA c : ~c.httpOnly))

\* the setter of document.cookie: a cookie of that name is replaced; an expiry
\* in the past deletes it
setDocumentCookie(jar, name, value, expires, day) ==
    LET others == SelectSeq(jar, LAMBDA c : c.name # name)
    IN  IF expires > day
        THEN others \o <<[name |-> name, value |-> value, expires |-> expires,
                          httpOnly |-> FALSE]>>
        ELSE others

\* the Cookie header of a request: every cookie of the jar
CookieHeader(jar) == Join(jar)

\* request.cookies.get(name): <<>> or the cookie of that name in the header
RequestCookiesGet(header, name) ==
    LET pairs == IF header = "" THEN <<>> ELSE Split(header, "; ")
        named == SelectSeq(pairs, LAMBDA p : startsWith(p, name \o "="))
    IN  IF named = <<>> THEN <<>>
        ELSE <<[name |-> name,
                value |-> SubSeq(named[1], Len(name) + 2, Len(named[1]))]>>

SECRET_PASSWORD == "alwayswatching"
AUTH_COOKIE_NAME == "roz_auth"
\* expires.setDate(expires.getDate() + 7)
CookieDays == 7

\* a check that takes any password
verifyPasswordAny(password) == TRUE

verifyPassword(password) == password = SECRET_PASSWORD

setAuthCookie(jar, day) ==
    setDocumentCookie(jar, AUTH_COOKIE_NAME, "true", day + CookieDays, day)

\* expires=Thu, 01 Jan 1970: a day before every day of the model
clearAuthCookie(jar, day) ==
    setDocumentCookie(jar, AUTH_COOKIE_NAME, "", 0 - 1, day)

isAuthenticated(jar) == includes(documentCookie(jar), AUTH_COOKIE_NAME \o "=true")

\* config.matcher: every path but those under api, _next/static, _next/image
\* and favicon.ico
matcher(pathname) ==
    /\ startsWith(pathname, "/")
    /\ ~\E skipped \in {"api", "_next/static", "_next/image", "favicon.ico"} :
           startsWith(pathname, "/" \o skipped)

NextResponseNext == [type |-> "next", location |-> ""]
NextResponseRedirect(location) == [type |-> "redirect", location |-> location]

\* a dashboard test that knows the one path only
isDashboardExact(pathname) == pathname = "/dashboard"

isDashboard(pathname) == startsWith(pathname, "/dashboard")

\* a login-page test that takes every path
isLoginPageAny(pathname) == startsWith(pathname, "/")

isLoginPage(pathname) == pathname = "/"

\* authCookie?.value === "true"
requestAuthenticated(header) ==
    LET authCookie == RequestCookiesGet(header, "roz_auth")
    IN  authCookie # <<>> /\ authCookie[1].value = "true"

middleware(header, pathname) ==
    IF isDashboard(pathname) /\ ~requestAuthenticated(header)
    THEN NextResponseRedirect("/")
    ELSE IF isLoginPage(pathname) /\ requestAuthenticated(header)
    THEN NextResponseRedirect("/dashboard")
    ELSE NextResponseNext

\* the paths a user asks for, the passwords a user types
Paths == {"/", "/dashboard", "/dashboard/live", "/api/cameras"}
Passwords == {"alwayswatching", "wrong"}
MaxDay == 8
MaxRequests == 3

\* the cookies another page of the host or the user may have left in the jar
ForeignCookies ==
    [name : {"roz_auth", "xroz_auth"}, value : {"true", "true1", ""},
     expires : {MaxDay + 2}, httpOnly : BOOLEAN]
Jars ==
    {<<>>} \cup {<<c>> : c \in ForeignCookies}
           \cup {<<c, d>> : c \in {k \in ForeignCookies : k.name = "roz_auth"},
                            d \in {k \in ForeignCookies : k.name = "xroz_auth"}}

\* a fresh browser profile, or one holding a cookie that is none of the login's
InitAuth ==
    /\ heatmap_minutes = {}
    /\ id_seq = 1
    /\ driver = [d \in Drivers |-> IdleDriver]
    /\ handler = NoHandlers
    /\ tmp = NoFiles
    /\ now = 0
    /\ input = NoInput
    /\ render = NoRenders
    /\ request = IdleRequest
    /\ call = NoCall
    /\ cookie \in {NoCookies,
                   <<[name |-> "theme", value |-> "dark", expires |-> MaxDay + 2,
                      httpOnly |-> FALSE]>>}
    /\ browser = NoBrowser
    /\ state_dir = NoStateDir
    /\ pgroup = NoGroups
    /\ shell = NoShells

\* any cookie jar
InitCookie ==
    /\ heatmap_minutes = {}
    /\ id_seq = 1
    /\ driver = [d \in Drivers |-> IdleDriver]
    /\ handler = NoHandlers
    /\ tmp = NoFiles
    /\ now = 0
    /\ input = NoInput
    /\ render = NoRenders
    /\ request = IdleRequest
    /\ call = NoCall
    /\ cookie \in Jars
    /\ browser = NoBrowser
    /\ state_dir = NoStateDir
    /\ pgroup = NoGroups
    /\ shell = NoShells

\* router.push(href), or the user entering the address: a navigation begins
push(b, href) == [b EXCEPT !.pc = "requesting", !.url = href, !.requests = <<>>]

Navigate(href) ==
    /\ browser.pc \in {"closed", "served", "mounted"}
    /\ browser' = push(browser, href)
    /\ UNCHANGED <<heatmap_minutes, id_seq, driver, request, call, handler, tmp, now, input, render, cookie, state_dir, pgroup, shell>>

\* the server answers the request for browser.url: the middleware where the
\* matcher has it run; a redirect is followed, a passed request is rendered
\* with the initial state of useAuth
Request ==
    /\ browser.pc = "requesting"
    /\ Len(browser.requests) < MaxRequests
    /\ LET header == CookieHeader(cookie)
           response == IF matcher(browser.url)
                       THEN middleware(header, browser.url)
                       ELSE NextResponseNext
           sent == Append(browser.requests,
                          [pathname |-> browser.url, cookies |-> cookie,
                           response |-> response])
       IN  browser' =
               IF response.type = "redirect"
               THEN [browser EXCEPT !.url = response.location, !.requests = sent]
               ELSE [browser EXCEPT !.pc = IF isLoginPage(browser.url)
                                              \/ isDashboard(browser.url)
                                           THEN "rendered" ELSE "served",
                                    !.pathname = browser.url,
                                    !.requests = sent,
                                    !.authenticated = FALSE,
                                    !.loading = TRUE,
                                    !.password = "",
                                    !.error = "",
                                    !.returned = <<>>]
    /\ UNCHANGED <<heatmap_minutes, id_seq, driver, request, call, handler, tmp, now, input, render, cookie, state_dir, pgroup, shell>>

\* useEffect of useAuth after the first render
Effect ==
    /\ browser.pc = "rendered"
    /\ browser' = [browser EXCEPT !.pc = "mounted",
                                  !.authenticated = isAuthenticated(cookie),
                                  !.loading = FALSE]
    /\ UNCHANGED <<heatmap_minutes, id_seq, driver, request, call, handler, tmp, now, input, render, cookie, state_dir, pgroup, shell>>

\* the user has typed a password and submits the form: LoginPage.handleSubmit
\* calls login(password) and shows the error when it returns false
Login(password) ==
    /\ browser.pc = "mounted"
    /\ isLoginPage(browser.pathname)
    /\ IF verifyPassword(password)
       THEN /\ cookie' = setAuthCookie(cookie, now)
            /\ browser' = [push(browser, "/dashboard") EXCEPT
                              !.password = password,
                              !.authenticated = TRUE, !.lastOp = "login",
                              !.lastAt = now, !.returned = <<TRUE>>]
       ELSE /\ cookie' = cookie
            /\ browser' = [browser EXCEPT !.password = "",
                                          !.error = "Incorrect password",
                                          !.returned = <<FALSE>>]
    /\ UNCHANGED <<heatmap_minutes, id_seq, driver, request, call, handler, tmp, now, input, render, state_dir, pgroup, shell>>

\* the banner's button: logout()
Logout ==
    /\ browser.pc = "mounted"
    /\ isDashboard(browser.pathname)
    /\ cookie' = clearAuthCookie(cookie, now)
    /\ browser' = [push(browser, "/") EXCEPT
                      !.authenticated = FALSE, !.lastOp = "logout",
                      !.lastAt = now, !.returned = <<>>]
    /\ UNCHANGED <<heatmap_minutes, id_seq, driver, request, call, handler, tmp, now, input, render, state_dir, pgroup, shell>>

\* a day passes; the browser drops the cookies whose expiry has come
Day ==
    /\ now < MaxDay
    /\ now' = now + 1
    /\ cookie' = Unexpired(cookie, now + 1)
    /\ UNCHANGED <<heatmap_minutes, id_seq, driver, request, call, handler, tmp, input, render, browser, state_dir, pgroup, shell>>

NextAuth ==
    \/ \E href \in Paths : Navigate(href)
    \/ Request
    \/ Effect
    \/ \E password \in Passwords : Login(password)
    \/ Logout
    \/ Day

SpecAuth == InitAuth /\ [][NextAuth]_vars

SpecCookie == InitCookie /\ [][NextAuth]_vars

\* has a request been sent with a cookie roz_auth of value "true"
WithAuthCookie(r) ==
    \E j \in 1..Len(r.cookies) :
        r.cookies[j].name = "roz_auth" /\ r.cookies[j].value = "true"

\* C22: the middleware never passes a request for a path that starts with
\* /dashboard unless the roz_auth cookie equals "true": such a request without
\* that cookie value is redirected to /, and an authenticated request for / is
\* redirected to /dashboard.
C22_DashboardNeedsCookie ==
    \A k \in 1..Len(browser.requests) :
        LET r == browser.requests[k]
        IN  /\ (startsWith(r.pathname, "/dashboard") /\ r.response.type = "next")
                   => WithAuthCookie(r)
            /\ (startsWith(r.pathname, "/dashboard") /\ ~WithAuthCookie(r))
                   => r.response = NextResponseRedirect("/")
            /\ (r.pathname = "/" /\ WithAuthCookie(r))
                   => r.response = NextResponseRedirect("/dashboard")

\* a request for a page under /dashboard, sent with roz_auth=true1, has been
\* turned away and the login page served in its place
C22_Witness ==
    /\ Len(browser.requests) = 2
    /\ browser.requests[1].pathname = "/dashboard/live"
    /\ browser.requests[1].response = NextResponseRedirect("/")
    /\ Len(browser.requests[1].cookies) = 1
    /\ browser.requests[1].cookies[1].value = "true1"
    /\ browser.requests[1].cookies[1].name = "roz_auth"

\* a request for the login page sent with the cookie has gone to the dashboard
C22_WitnessLogin ==
    /\ Len(browser.requests) = 2
    /\ browser.requests[1].pathname = "/"
    /\ WithAuthCookie(browser.requests[1])
    /\ browser.requests[2].response.type = "next"

(***************************************************************************)
(* The camera host: pi-cam-on and pi-cam-off, invoked from shells that may *)
(* overlap, the PGID files they share and the process groups they start    *)
(* and stop.                                                               *)
(***************************************************************************)
\* for _ in {1..10}: the polls of the grace period
GraceTries == 10

\* kill -0 -- -pgid: is any process of the group there
Alive(groups, pgid) == pgid \in DOMAIN groups /\ groups[pgid].state = "alive"

\* [[ -f file ]]
IsFile(dir, file) == dir[file] # <<>>

\* [[ -f "$CAP_PGID_FILE" ]] && kill -0 -- -$(cat "$CAP_PGID_FILE")
AlreadyRunning(dir, groups) ==
    IsFile(dir, "capture.pgid") /\ Alive(groups, dir["capture.pgid"][1])

\* a grace period after which the group is left alone
afterGraceSpared(group) == group

\* kill -9 -- -pgid
afterGrace(group) ==
    IF group.state = "alive" THEN [group EXCEPT !.state = "dead", !.signal = "KILL"]
    ELSE group

\* the pid of a new background job: the next one no process has had
FreshPgids(groups) ==
    LET free == {g \in DOMAIN groups : groups[g].state = "free"}
    IN  {g \in free : \A h \in free : g <= h}

InFlight(s) == shell[s].pc \notin {"idle", "done"}

\* the shell s starts a script; the invocations in flight are marked as
\* overlapping it
Begin(s, script, pc) ==
    [t \in Invocations |->
        IF t = s
        THEN [IdleShell EXCEPT !.script = script, !.pc = pc,
                               !.file = IF script = "pi-cam-off" THEN "capture.pgid"
                                        ELSE "",
                               !.overlapped = \E u \in Invocations \ {s} : InFlight(u)]
        ELSE [shell[t] EXCEPT !.overlapped = @ \/ InFlight(t)]]

\* the script ends with a status; its variables are gone, what it did stays known
Exit(sh, status) ==
    [IdleShell EXCEPT !.script = sh.script, !.pc = "done", !.read = sh.read,
                      !.overlapped = sh.overlapped, !.status = <<status>>]

InitCam ==
    /\ heatmap_minutes = {}
    /\ id_seq = 1
    /\ driver = [d \in Drivers |-> IdleDriver]
    /\ handler = NoHandlers
    /\ tmp = NoFiles
    /\ now = 0
    /\ input = NoInput
    /\ render = NoRenders
    /\ request = IdleRequest
    /\ call = NoCall
    /\ cookie = NoCookies
    /\ browser = NoBrowser
    /\ state_dir = NoStateDir
    /\ pgroup = NoGroups
    /\ shell = NoShells

\* pi-cam-on is invoked in a shell whose last script has ended
OnStart(s) ==
    /\ ~InFlight(s)
    /\ shell' = Begin(s, "pi-cam-on", "check")
    /\ UNCHANGED <<heatmap_minutes, id_seq, driver, request, call, handler, tmp, now, input, render, cookie, browser, state_dir, pgroup>>

\* Prevent double start
OnCheck(s) ==
    /\ shell[s].script = "pi-cam-on" /\ shell[s].pc = "check"
    /\ shell' = [shell EXCEPT ![s] =
                    IF AlreadyRunning(state_dir, pgroup)
                    THEN Exit(shell[s], 0)
                    ELSE [shell[s] EXCEPT !.pc = "capture"]]
    /\ UNCHANGED <<heatmap_minutes, id_seq, driver, request, call, handler, tmp, now, input, render, cookie, browser, state_dir, pgroup>>

\* setsid bash -c "rpicam-vid ... | ffmpeg ..." & CAP_LEADER=$!
OnStartCapture(s) ==
    /\ shell[s].script = "pi-cam-on" /\ shell[s].pc = "capture"
    /\ \E g \in FreshPgids(pgroup) :
           /\ pgroup' = [pgroup EXCEPT ![g] =
                            [state |-> "alive", runs |-> "capture", signal |-> ""]]
           /\ shell' = [shell EXCEPT ![s].CAP_LEADER = g, ![s].pc = "write_cap"]
    /\ UNCHANGED <<heatmap_minutes, id_seq, driver, request, call, handler, tmp, now, input, render, cookie, browser, state_dir>>

\* echo $CAP_LEADER > "$CAP_PGID_FILE"
OnWriteCapture(s) ==
    /\ shell[s].script = "pi-cam-on" /\ shell[s].pc = "write_cap"
    /\ state_dir' = [state_dir EXCEPT !["capture.pgid"] = <<shell[s].CAP_LEADER>>]
    /\ shell' = [shell EXCEPT ![s].pc = "cleanup"]
    /\ UNCHANGED <<heatmap_minutes, id_seq, driver, request, call, handler, tmp, now, input, render, cookie, browser, pgroup>>

\* setsid bash -c "while true; do find ... -delete; sleep 60; done" & CLN_LEADER=$!
OnStartCleanup(s) ==
    /\ shell[s].script = "pi-cam-on" /\ shell[s].pc = "cleanup"
    /\ \E g \in FreshPgids(pgroup) :
           /\ pgroup' = [pgroup EXCEPT ![g] =
                            [state |-> "alive", runs |-> "cleanup", signal |-> ""]]
           /\ shell' = [shell EXCEPT ![s].CLN_LEADER = g, ![s].pc = "write_cln"]
    /\ UNCHANGED <<heatmap_minutes, id_seq, driver, request, call, handler, tmp, now, input, render, cookie, browser, state_dir>>

\* echo $CLN_LEADER > "$CLN_PGID_FILE"; the script ends
OnWriteCleanup(s) ==
    /\ shell[s].script = "pi-cam-on" /\ shell[s].pc = "write_cln"
    /\ state_dir' = [state_dir EXCEPT !["cleanup.pgid"] = <<shell[s].CLN_LEADER>>]
    /\ shell' = [shell EXCEPT ![s] = Exit(shell[s], 0)]
    /\ UNCHANGED <<heatmap_minutes, id_seq, driver, request, call, handler, tmp, now, input, render, cookie, browser, pgroup>>

\* pi-cam-off is invoked: stop_group "$CAP_PGID_FILE" comes first
OffStart(s) ==
    /\ ~InFlight(s)
    /\ shell' = Begin(s, "pi-cam-off", "test")
    /\ UNCHANGED <<heatmap_minutes, id_seq, driver, request, call, handler, tmp, now, input, render, cookie, browser, state_dir, pgroup>>

\* the position after stop_group of a file: the next file, or the end
afterStopGroup(sh) ==
    IF sh.file = "capture.pgid"
    THEN [sh EXCEPT !.pc = "test", !.file = "cleanup.pgid", !.pgid = 0, !.tries = 0]
    ELSE Exit(sh, 0)

\* [[ -f "$file" ]] || return 0; pgid=$(cat "$file"); if kill -0 -- -"$pgid"
OffTest(s) ==
    /\ shell[s].script = "pi-cam-off" /\ shell[s].pc = "test"
    /\ shell' = [shell EXCEPT ![s] =
                    IF ~IsFile(state_dir, shell[s].file) THEN afterStopGroup(shell[s])
                    ELSE LET pgid == state_dir[shell[s].file][1]
                         IN  [shell[s] EXCEPT
                                 !.pgid = pgid,
                                 !.read = @ \cup {pgid},
                                 !.pc = IF Alive(pgroup, pgid) THEN "term" ELSE "rm"]]
    /\ UNCHANGED <<heatmap_minutes, id_seq, driver, request, call, handler, tmp, now, input, render, cookie, browser, state_dir, pgroup>>

\* kill -- -"$pgid"
OffTerm(s) ==
    /\ shell[s].script = "pi-cam-off" /\ shell[s].pc = "term"
    /\ pgroup' = [pgroup EXCEPT ![shell[s].pgid].signal =
                     IF pgroup[shell[s].pgid].state = "alive" THEN "TERM" ELSE @]
    /\ shell' = [shell EXCEPT ![s].pc = "wait", ![s].tries = 0]
    /\ UNCHANGED <<heatmap_minutes, id_seq, driver, request, call, handler, tmp, now, input, render, cookie, browser, state_dir>>

\* sleep 0.3; kill -0 -- -"$pgid" || break
OffWait(s) ==
    /\ shell[s].script = "pi-cam-off" /\ shell[s].pc = "wait"
    /\ shell' = [shell EXCEPT
                    ![s].tries = IF ~Alive(pgroup, shell[s].pgid)
                                    \/ shell[s].tries + 1 = GraceTries
                                 THEN 0 ELSE shell[s].tries + 1,
                    ![s].pc = IF ~Alive(pgroup, shell[s].pgid)
                                 \/ shell[s].tries + 1 = GraceTries
                              THEN "kill9" ELSE "wait"]
    /\ UNCHANGED <<heatmap_minutes, id_seq, driver, request, call, handler, tmp, now, input, render, cookie, browser, state_dir, pgroup>>

\* kill -9 -- -"$pgid" || true
OffKill(s) ==
    /\ shell[s].script = "pi-cam-off" /\ shell[s].pc = "kill9"
    /\ pgroup' = [pgroup EXCEPT ![shell[s].pgid] = afterGrace(@)]
    /\ shell' = [shell EXCEPT ![s].pc = "rm"]
    /\ UNCHANGED <<heatmap_minutes, id_seq, driver, request, call, handler, tmp, now, input, render, cookie, browser, state_dir>>

\* rm -f "$file"
OffRemove(s) ==
    /\ shell[s].script = "pi-cam-off" /\ shell[s].pc = "rm"
    /\ state_dir' = [state_dir EXCEPT ![shell[s].file] = <<>>]
    /\ shell' = [shell EXCEPT ![s] = afterStopGroup(shell[s])]
    /\ UNCHANGED <<heatmap_minutes, id_seq, driver, request, call, handler, tmp, now, input, render, cookie, browser, pgroup>>

\* the processes of a group end: on the SIGTERM sent to them, or, those of a
\* capture, by themselves (the camera is busy or unplugged, the disk is full);
\* the loop of a cleanup group has no end of its own
GroupExit(g) ==
    /\ pgroup[g].state = "alive"
    /\ pgroup[g].signal = "TERM" \/ pgroup[g].runs = "capture"
    /\ pgroup' = [pgroup EXCEPT ![g].state = "dead"]
    /\ UNCHANGED <<heatmap_minutes, id_seq, driver, request, call, handler, tmp, now, input, render, cookie, browser, state_dir, shell>>

NextCam ==
    \/ \E s \in Invocations : OnStart(s)
    \/ \E s \in Invocations : OnCheck(s)
    \/ \E s \in Invocations : OnStartCapture(s)
    \/ \E s \in Invocations : OnWriteCapture(s)
    \/ \E s \in Invocations : OnStartCleanup(s)
    \/ \E s \in Invocations : OnWriteCleanup(s)
    \/ \E s \in Invocations : OffStart(s)
    \/ \E s \in Invocations : OffTest(s)
    \/ \E s \in Invocations : OffTerm(s)
    \/ \E s \in Invocations : OffWait(s)
    \/ \E s \in Invocations : OffKill(s)
    \/ \E s \in Invocations : OffRemove(s)
    \/ \E g \in 1..MaxPgid : GroupExit(g)

SpecCam == InitCam /\ [][NextCam]_vars

\* the capture groups that are running
Capturing == {g \in 1..MaxPgid : pgroup[g].state = "alive" /\ pgroup[g].runs = "capture"}

\* C23: after any pi-cam-on invocations, overlapping ones included, at most one
\* capture process group is running and capture.pgid names it.
C23_OneCaptureGroup ==
    (\A s \in Invocations : shell[s].pc \in {"idle", "done"})
        => /\ Cardinality(Capturing) <= 1
           /\ \A g \in Capturing : state_dir["capture.pgid"] = <<g>>

\* pi-cam-off has run to its end in shell s with no other invocation beside it
OffCompleted(s) ==
    /\ shell[s].script = "pi-cam-off"
    /\ shell[s].pc = "done"
    /\ ~shell[s].overlapped

C24_WitnessNothing ==
    \E s \in Invocations :
        /\ OffCompleted(s)
        /\ shell[s].read = {}
        /\ shell[s].status = <<0>>

\* the jar holds the cookie roz_auth of value "true"
AuthCookieSet ==
    \E j \in 1..Len(cookie) : cookie[j].name = "roz_auth" /\ cookie[j].value = "true"

\* a login attempt has just returned false
WrongPasswordStep == browser'.returned = <<FALSE>> /\ browser.returned # <<FALSE>>

\* the cookie is set, and the flag of the mounted hook true, exactly when the
\* last login or logout was a login
C25_CookieIffLastOpLogin ==
    /\ AuthCookieSet <=> browser.lastOp = "login"
    /\ browser.pc = "mounted" => (browser.authenticated <=> browser.lastOp = "login")

\* C25: after any sequence of login attempts and logouts through useAuth the
\* roz_auth cookie is set exactly when the most recent of them that changed
\* state was a login with the correct password not more than 7 days old;
\* `authenticated` is true right after that login, false right after a logout,
\* and in a mounted hook true whenever the cookie is set and only after a
\* login; an attempt with a wrong password returns false and changes neither
\* the cookie, the flag nor the route.
C25_CookieIffRecentLogin ==
    /\ [](/\ AuthCookieSet <=> (browser.lastOp = "login"
                                 /\ now < browser.lastAt + CookieDays)
          /\ browser.pc = "mounted"
                 => /\ AuthCookieSet => browser.authenticated
                    /\ browser.authenticated => browser.lastOp = "login")
    /\ [][/\ (browser'.returned = <<TRUE>> /\ browser.returned # <<TRUE>>)
                 => /\ browser'.password = "alwayswatching"
                    /\ browser'.authenticated
                    /\ browser'.lastOp = "login"
                    /\ browser'.url = "/dashboard"
          /\ (browser'.lastOp = "logout" /\ browser'.pc = "requesting"
                 /\ browser.pc = "mounted" /\ browser'.url = "/"
                 /\ isDashboard(browser.pathname))
                 => ~browser'.authenticated
          /\ WrongPasswordStep
                 => /\ cookie' = cookie
                    /\ browser'.authenticated = browser.authenticated
                    /\ browser'.pathname = browser.pathname
                    /\ browser'.pc = browser.pc
                    /\ browser'.url = browser.url
                    /\ browser'.lastOp = browser.lastOp]_vars

\* a login, a logout, a wrong password and a second login have been made, and
\* the cookie of the second login is set
C25_Witness ==
    /\ AuthCookieSet
    /\ browser.lastOp = "login"
    /\ browser.lastAt = 1
    /\ browser.pc = "mounted"
    /\ browser.authenticated

\* a wrong password has been turned down on the login page
C25_WitnessWrong ==
    /\ browser.returned = <<FALSE>>
    /\ browser.error = "Incorrect password"
    /\ browser.lastOp = "logout"
    /\ ~AuthCookieSet

\* the requests of a navigation that were all sent with the same cookies
SameCookies(requests) ==
    \A k \in 1..Len(requests) : requests[k].cookies = requests[1].cookies

\* C26: middleware redirects never loop: for either cookie state the target of
\* a redirect (/ without the cookie, /dashboard with it) is passed through
\* under the same cookie, so a navigation is served after at most one redirect.
C26_AtMostOneRedirect ==
    LET requests == browser.requests
    IN  /\ \A k \in 1..Len(requests) :
               requests[k].response.type = "redirect"
                   => /\ requests[k].response.location =
                             IF WithAuthCookie(requests[k]) THEN "/dashboard" ELSE "/"
                      /\ middleware(CookieHeader(requests[k].cookies),
                                    requests[k].response.location) = NextResponseNext
        /\ SameCookies(requests)
               => /\ Len(requests) <= 2
                  /\ \A k \in 1..Len(requests) :
                         requests[k].response.type = "redirect" => k = 1
                  /\ (Len(requests) = 2 /\ browser.pc # "requesting")
                         => /\ requests[2].pathname = requests[1].response.location
                            /\ requests[2].response.type = "next"

\* a navigation to the dashboard without the cookie and one to the login page
\* with it have each been served after one redirect
C26_Witness ==
    /\ browser.pc \in {"rendered", "mounted"}
    /\ Len(browser.requests) = 2
    /\ SameCookies(browser.requests)
    /\ WithAuthCookie(browser.requests[1])
    /\ browser.requests[1].response = NextResponseRedirect("/dashboard")
    /\ browser.requests[2].response.type = "next"

\* C27: for every cookie state the client's isAuthenticated() is true exactly
\* when the middleware takes a request sent with those cookies as
\* authenticated (a cookie named roz_auth whose value equals "true").
C27_ClientAgreesWithMiddleware ==
    /\ isAuthenticated(cookie) <=> requestAuthenticated(CookieHeader(cookie))
    /\ (browser.pc = "mounted" /\ browser.lastOp = "none" /\ now = 0)
           => (browser.authenticated
                   <=> WithAuthCookie(browser.requests[Len(browser.requests)]))

\* the same for the cookie states the login and the logout themselves produce
C27_ClientAgreesAfterLogin ==
    isAuthenticated(cookie) <=> requestAuthenticated(CookieHeader(cookie))

\* the login has set the cookie and both sides take the user as logged in
C27_WitnessAfterLogin ==
    /\ isAuthenticated(cookie)
    /\ browser.pc = "mounted"
    /\ isDashboard(browser.pathname)

====
